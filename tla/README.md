# HPKV in TLA+

HPKV is a persistent key-value engine: 8-byte keys, 4096-byte values,
`Open` / `Write` / `Read` (`CPP/include/engine.h`), written to be called by many
threads and to survive the kill of its process.  The modules here model its two
engines, C++ and Java, and the program that drives the C++ one, from their
source; TLC checks them on small instances, and TLAPS proves the main safety
properties for every value of the constants.

## The system

| Part | State | Operations | Talks to |
|---|---|---|---|
| Value files, `value_resources.cc`, `Hash.cc` | 64 append-only files, each one stdio stream shared by all threads, and a mutex per file | `write` (lock, seek to the end, tell, write, flush, unlock), `read` (seek, read; its lock calls are commented out) | stdio, the kernel |
| Index, `index.cc` | a pointer to the tree and `index_lock` | `add` (insert, else update, under two separate holds of the lock), `get` | B+ tree |
| B+ tree, `bt.cc`, `bt.h` | `index.db`: a meta block and nodes at offsets; the meta block also in memory | `insert`, `update`, `search`; `remove` and `search_range`, which nothing calls | its file, one block per open/seek/write/close |
| Tree keys, `btconf.h` | none | 8 chars to a `long long`, and their order | the tree |
| Engine, `engine_race.cc` | two static pointers, to the value files and the index, one pair for all engines of the process | `Open`, `Write`, `Read`, destructor; `Range` is a stub | value files, then index (`Write`); index, then value files (`Read`) |
| Test program, `main.cc` | the keys written, under a mutex | rounds of open, writers, join, delete; then open, readers, join, delete | engine |
| Java engine, `EngineRace.java` and `hpkv` | `value.db`, `key.db`, a `TreeMap`, static handles | `open`, `write`, `read`, `range`, `close` | files |

Two facts about this commit matter for everything below.

* The bodies of `Index::add` and `Index::get` are commented out.  The archive
  `CPP/lib/libengine.a`, which `CPP/check.sh` links, was built with them.  The
  constant `Wired` chooses: TRUE is the engine as built (with the commented
  lines), FALSE the text as it stands.
* No lock spans the two halves of `Write` or of `Read`, and `ValueResources::read`
  takes none at all.

What is hard here: threads that share a stream position, a kill between two
steps of a write, a short write nobody notices, B+ tree splits that take many
separate file writes and must leave every sibling, parent and separator right,
static pointers that one engine resets under another.  `PROJECT.json` lists
these hazards at their lines, with the property that would catch each going
wrong.

What makes each part correct:

* Value files: an offset that `write` returned addresses the whole value, now and
  after a kill; nothing that reached a file changes; a read at such an offset
  delivers the value; every call returns.
* Index and engine: the store is a linearizable map; no offset enters the index
  before its value is safe; a key whose `Write` returned is found, unless a kill
  hits the tree in the middle of an insert; nothing that was deleted is used, and
  no call mixes the files of two directories.
* Tree: it is a map of the engine's keys, with removal too; chains, parents, counts and fill hold between operations; the unused last key
  of a node agrees with the separator after it, since merging uses it again; a
  range search skips and repeats nothing; a kill costs neighbours only, and what
  it leaves goes on working.
* Program: its threads are inside an engine only while there is one, reads and
  writes keep apart, it ends, and, with a tree that has its root,
  it never prints its own read error.
* Java engine: the map read back from `key.db`, and the one in memory, give each
  key its last value, but for what a torn entry costs.

## Modules

| Module | Models |
|---|---|
| `Hash` | the bucket of a key: `int` of a given width, `-INT_MIN`, C's `%` |
| `ValueResources` | the value files, one action per stdio or mutex call |
| `KVStore` | abstract: a linearizable map (what `engine.h` promises), and what a kill may cost it |
| `IndexMap` | abstract: insert refuses a present key, update and remove an absent one (what `index.cc` and `bt.h` promise) |
| `EngineRace` | extends `ValueResources`: `Write`, `Read`, `Index::add`/`get`, kill and open; uses `IndexMap`'s actions on `index`; implements `KVStore` |
| `TestProgram` | extends `EngineRace`: `main.cc` from start to end, killed anywhere and started again |
| `EngineLifecycle` | `Open` and the destructor on the static pointers, several engines, calls at any moment |
| `BPlusTree` | the tree in its file: insert, update, search, reopening, one action per block write |
| `BPlusTreeRemove` | extends `BPlusTree`: remove, borrowing, merging, root collapse |
| `BPlusTreeRange` | extends `BPlusTree`: `search_range` as an operator on the state |
| `BPlusTreeCrash` | extends `BPlusTree`: kills between any two block writes, of the tree's creation too |
| `TreeKey` | `key_t` from a string, `PolarString::compare` |
| `BPlusTreeKeys` | `TreeKey` over the whole tree; implements `IndexMap` on strings |
| `JavaEngine` | the Java engine over `value.db` and `key.db`, one action per step between which threads or kills can come |
| `ValueResourcesProofs`, `EngineRaceProofs`, `EngineLifecycleProofs`, `TestProgramProofs`, `JavaEngineProofs`, `BPlusTreeProofs`, `BPlusTreeKeysProofs` | theorems and proofs |
| `DataFacts` | lemmas about numbers, sequences, folds and iteration that the last three cite |
| `MCValueResources`, `MCEngineRace`, `MCTestProgram`, `MCBPlusTree`, `MCBPlusTreeKeys`, `MCBPlusTreeCrash`, `MCJavaEngine` | constants for TLC |

The composition: `TestProgram` runs on `EngineRace` (`ProgramUsesEngine`), which runs on
`ValueResources` step by step (its steps are steps of `ValueResources`:
`UsesValueFiles`) and on the index as the map `IndexMap`, which `BPlusTree`
under `TreeKey` implements (`ImplementsStringMap`).  Engine and tree are joined
that way because `index_lock` is held over every whole tree operation, so no
thread sees the tree in between.  A kill does: what it then finds in the tree's
file is taken from `BPlusTreeCrash` (below).

### How state and actions correspond to the code

`ValueResources`.  A value is `VALUE_SIZE` cells `<<v, i>>`, a file a sequence of
cells; so torn, short and shifted values are visible.  `file` is what the kernel
has, `buf` what stdio still holds, `pos` the stream's position.  A single stdio
call is atomic (POSIX locks the `FILE`).  `FSeekEnd`, `FSeekSet`, `FRead` and
`FFlush` write out the buffer; the stream was opened `"a+"`, so that lands at the
end of the file wherever the position is.  `FWrite` accepts any n <= `VALUE_SIZE`
cells (n smaller only while `shorts < MaxShort`: a full disk, whose result the
code ignores), hands any m of them to the kernel at once and buffers the others,
so a `Crash` may leave a torn value.  `Crash` forgets buffers, positions, mutexes
and calls; the files stay.  `CloseFiles` is the destructor and the next
constructor: `fclose` writes the buffers out.  `acked` records what `write`
returned.
`Overlap = FALSE` lets no read run beside a write.

`EngineRace`.  `epc` is the place in `Write` or `Read`: `value_write` (inside
`value_resources->write`), `insert` and `update` (the two halves of
`Index::add`, between which `index_lock` is free), `write_end`; `get`,
`value_read`, `read_end`.  `KillAndOpen` is a kill and `Open`.  The files stay as they are.  The
tree stays too, unless the kill comes inside a tree operation, which is several
writes to `index.db`.  Inside an insert (`KillInInsert`) a key keeps its offset, the
inserted key may be in, and any keys may be lost: more than `KillConfined` of
`tree_crash` allows, which confines the loss to neighbours.  An insert that makes
the tree grow may lose the root, and so may a kill inside its creation
(`KillInCreation`, where no key is in yet): `rooted` turns FALSE for good.  In a tree
without a root, `insert` may find any key, nothing is stored, and `get` returns any
offset (`AnyRead` of `ValueResources` is the read that follows).  An update writes one
block (`KillInUpdate`).  `CloseEngine` is `delete engine`, allowed when no call runs.
`done` (keys written since the last kill inside an insert) and `owed` are history.  `Store` and `Calls` are the refinement mapping to
`KVStore`: a `Write` takes effect when its offset enters the index, a `Read` when
it looks the offset up, though the value is read later; the map is broken when
`rooted` is FALSE.

`TestProgram`.  `mpc` is the place of `main`, `nk` the rounds done, `left` the
iterations a thread has still to make, `listed` the keys in the
`threadsafe_vector`, `live` whether the engine's objects exist.  `KeyFromValue`
is `key_from_value`.  A join is the guard `Finished` of the close that follows
it; `DeleteEngine` is `CloseEngine` and says nothing of the threads, so that what
becomes of a thread inside is seen.  `WriteOne` and `AddKey` are the two halves of an iteration of
the writer, `ReadOne` and `CompareKey` of the reader; `CompareKey` goes to
`error` where the program exits.  `KillAndRun` kills it anywhere and starts it
again on the same directory, `MaxRuns` times in all.  Here `Overlap = TRUE`: only
the joins keep reads and writes apart.

`EngineLifecycle`.  The pointers are numbers of the `Open` that made what they
address, 0 for `nullptr`; `live` are the objects that exist.  Each `new`,
`delete` and assignment in `Open` and the destructor is a step.  A call follows
the two pointers one after the other, in the order of `Write` or of `Read`.
`fate` records that a null pointer or a deleted object was dereferenced; the
process does not go on.  `alone` and `apart` record whether main ever opened an
engine beside another, and whether a call ever ran beside an `Open` or a delete:
the properties say what each habit buys.

`BPlusTree`.  Offsets count blocks.  `block` and `saved` are the file, `meta` the
meta block in memory.  An operation that decides what to write (`Insert`,
`Update`, then `InsertKeyToIndex` once per level) puts the writes into `todo` in
the order the code makes them, `Unmap` makes them one at a time, and `up` is the
key that travels to the parent (`insert_key_to_index`, which recurses; here one
action per level).  Deciding early is the same as deciding between the writes:
within one level the code reads only blocks the level has not written yet, and
the next level starts when `todo` is empty.  The unused last key of an internal
node is kept, as the code keeps it.  `Reopen` reads the meta block again.

`BPlusTreeRemove`.  `RemoveKey` is `remove` up to its call of
`remove_from_index`, and `RemoveFromIndex` one level of that, both with `todo`
and `up` as above (`up.op` tells the two kinds of key apart).  Its disjuncts are
the branches in the order of the code: enough left, borrow from the left, borrow
from the right, merge.  `ChangeParentChild` walks up as long as it meets unused
last keys.  Blocks of merged nodes stay in the file, unreachable, as in the code
(`unalloc` only counts).  The last line of `WithoutKey` is what
`remove_from_index` does when `find` leads it to the last child: `to_delete` is
never `end(node)`, and the copy that follows is empty.

`BPlusTreeRange`.  `search_range` reads only, so `SearchRange` is an operator.
Its result is the records copied (the code keeps their values), `*next` and
`*left`.

`BPlusTreeCrash`.  `Kill` drops `todo` and `up` and reads `meta` from the file, as
the constructor does; `dict` becomes what search then finds.  The run starts
before the first write of `init_from_empty`.  Three writes make a tree, and a new
root and the parents of its children are written after the meta block that names
it; in between no usable root is in the file (`Rooted`).  What the program does
with such a file is undefined (it follows a block that is not there, or builds a
second root), so no operation follows.

`TreeKey`, `BPlusTreeKeys`.  `Number` is the constructor of `key_t`, `Digit` its
treatment of signed chars, `BPT_MOVE_STEP` both the number of chars and the bits
of one, as in the code, where it is 8; the run takes 2.  Keys of any width are
sums of the same digits, and two bits give negative and other chars.

`JavaEngine`.  `values` is `value.db`, a position being `ValueSize` times an index;
`words` is `key.db`: keys and positions are words of one kind, so that a word
read at the wrong place is what it is, a number.  `KeyCache.getMap` is `GetMap`.
`databaseFile` is the static handle, which `Check`, `Create` and `ReturnFile`
(the steps of `getDatabaseFile`, not synchronized) may make several times; each
handle has its `seek`.  `monitor` is `synchronized (this)`, which `write` enters
with the handle it has got and `read` before it gets one.  `risk`, `stored` and
`expect` are history: the words a torn entry has made unreliable, the last value
of each key, and what a running read must return.  A `get` beside a `put` may
miss its key, as `TreeMap` allows.

Definitions named `X_Y` and marked "Fault" are wrong versions of `X` (a missing
lock, an unsaved block, an off-by-one).  No specification uses them: replacing
`X` by `X_Y` makes the property it is listed with in `PROJECT.json` fail, which
shows that the property can fail.

## Runs

Passing runs:

| Run | Question | Bounds |
|---|---|---|
| `program` | do the joins of `main.cc` keep engine, reads and writes apart, so that offsets and reads are right, the engine is a linearizable store up to what a kill inside a tree operation costs, and the program ends without its read error? | 2 writers, 1 reader, one call each; 2 keys in one file, 3 values of 2 cells; killed once anywhere, inside tree operations too, and run again |
| `engine_mixed` | what of values, index and lookups holds with reads beside writes? | 2 writers, 1 reader, 2 keys in one file, 2 values, 2 writes, 1 kill anywhere, no end of reads; a view |
| `lifecycle` | which habit of the caller makes `Open`, calls and delete safe? | 2 engines, 2 callers, 3 opens |
| `tree_full` | do splits through three levels, odd order, keep the tree and its bookkeeping? | order 5, 125 scripted inserts fill every node, then 5 keys in every order |
| `tree_remove` | is the tree a map of strings, in the order stated, and a range search exact? | order 4, 7 scripted keys with negative chars make three leaves; then 4 of them removed, they and an eighth inserted, one updated, reopened, any order, again and again while a block is free; every left, right and max <= 5 |
| `tree_levels` | what survives every branch of removal, collapse included? | order 4, 16 scripted inserts make two nodes of three leaves, then 10 keys removed in every order |
| `tree_crash` | what can a kill cost, and does what is left go on? | order 4, 22 scripted inserts from a file without a tree make leaves, nodes and a root, 2 further keys, 2 kills between any two block writes, blocks up to 13 |
| `java` | does every key keep its last value, is every read exact, and does the invariant that the proofs rest on hold? | 2 writers, 1 reader, 2 keys whose numbers are not positions, 2 values, 3 writes, 2 kills; symmetry of writers and of values |

The bounds suffice for what they ask.  Two cells are the least that can be torn;
two writers of one file give every interleaving of the critical section, and the
second run of the program appends after what the kill left of the first.  Two of
the three values of `program` share a key, so a key is overwritten.  The hash
values make the bucket of `min` the one `int` that cannot be negated, and `int`
is 4 bits wide.  `numKills` is 1 in `program`, as in `main.cc`; the proofs are for
any number of rounds.  Two engines, and a third `Open`, let each delete meet
pointers that another engine set, reset or replaced.  `tree_remove` has
seven keys at once, the least that make a third leaf of order 4: two steps along
`next`, the middle leaf of a range search (`bt.cc:103`), a leaf merged away and the
`next` around it, and a leaf split behind that are all met; four leaves are not, nor
are two nodes.  It splits leaves only; `tree_full` covers each branch of the splits (key left, key right,
key between the two middle keys) at the leaf, inner and root level, for the
program's odd kind of order.  Order 4 is the least the code supports: with 3
children `insert_key_to_index` would compare with the unused last key.
`tree_crash` kills in the creation of the tree (root and first leaf), in the one
growth that its 22 keys bring (the root, full of leaves, is split and gets a new root
above it), inside leaf splits and inside the split of a node below that root, and
lets a second kill meet what the first left.
`engine_mixed` counts two states as one where they differ only in what a thread that
is in no call still has of its last one (`Shown`): the next call sets it before
anything reads it, and no property of the run looks at it but for its type.  In
`java` two kills tear two entries, and three writes put a whole entry
behind a torn one.

Blocks are never reused, so trees that grow and shrink for ever have infinitely
many states: `MaxSlot` ends the inserts that follow the script (0: none).
`NewVals` and `Updatable` keep the values few where their number adds nothing.
The tree of `tree_levels` is such that the loss of two leaves makes either node
borrow or be merged; coverage shows that every branch of `RemoveKey` and
`RemoveFromIndex` is taken.  With order 4 an internal node that borrows has one
child left, so that the key it overwrites is the unused last one and
`SearchFinds` holds; order 6, in `tree_borrow_left`, is the least at which it is a
separator.  `tree_levels` must therefore not be read as saying that removal is
right for the program's order 25.

What the passing runs show beside "it holds":

* `OneOpenPerCall`, `NoFreedUse` and `AloneIsSafe` hold under the habit they name.
  A second `Open` silently moves the first engine to the other directory, and any
  delete takes the objects of all: with two engines open only "nothing freed is
  used" and "one directory per call" are left.
* `KillConfined`: a kill inside a split loses neighbouring keys, up to all keys of
  the new node, whose `Write` returned long ago; inside the growth of the tree, or
  its creation, it loses the root, and with it everything.  `WrittenIsFound`,
  `NoReadError` and `Linearizable` hold up to exactly that, and `KVStore` says so:
  `Write` may return, and a later kill during another `Write` may still take the key.
* `KeysInOrder` states the order the leaves really have: two keys that differ first
  in bytes of 0x80 and more stand the other way round than
  `PolarString::compare` has them (`btconf.h:28`).
* `RangeExact` describes `*next` as the code sets it: a search that reaches `max`
  exactly at the end of a leaf says that there is no more (`bt.cc:127`).
* `AckedReadable` says what a torn entry costs in Java: its own key and, because
  `getMap` then reads one word off, the entries up to the next torn one.

Runs whose property fails, each a disagreement of the code with what it says:

| Run | What it shows |
|---|---|
| `program_readers` | with two readers, as `main.cc` starts one per CPU, one reads at the other's offset and the program stops with its own read error (161-169) |
| `vr_read_during_write` | a read between `write`'s seek and tell makes `write` return a wrong offset, for good.  README.md:58 speaks of one lock per file |
| `engine_unwired` | without the bodies of `index.cc` a written key may be not found |
| `tree_borrow_left` | order 6: an internal node that borrows from its left loses its first separator (`bt.cc:427`), and keys are no longer found |

Nothing in the engine calls `remove`, so the last does not touch `Read` and
`Write`.  Three more can be seen by changing a constant or a property:

* `engine_mixed` with `MaxShort = 1` breaks `AckedStored`: a short `fwrite` goes
  unnoticed, and `Write` returns `kSucc` though `kFull` and `kIOError` exist.
* `tree_levels` with the invariant `ParentsRight`: after a collapse the new root
  keeps the removed root as its parent (`bt.cc:326`); when it splits, the key goes
  into the removed block.
* Order 4, keys 24 down to 1 inserted, then 4, 2, 1, 5, 3, 6, 8, 13 removed: 14, 15
  and 16 are not found.  A merge of the last child removes the unused last key in
  place of the separator before it (`bt.cc:378`), and a later merge one level up
  makes that key a separator.

Deadlock is checked where callers never stop (`tree_full`, `tree_remove`,
`tree_levels`).  It is not where they do: the program ends, the callers of
`engine_mixed` and of the engines make a bounded number of calls, a process that
followed a null pointer, a tree without a root and a Java engine that was closed
do nothing more.  That no call of the program hangs is `Ends`.

### Fairness

`ProgramSpec` assumes weak fairness of `main`'s steps and of each thread's: the
operating system goes on scheduling a runnable thread.  A mutex need not be fair,
so a waiting thread might starve if the others came back for ever; weak fairness
is enough because each thread makes finitely many calls (the loops of `main.cc`).
Kills are under no fairness, and there are at most `MaxRuns - 1` of them.  `Ends` asks
nothing of a program whose tree has lost its root, since what the code then does is
undefined.  No other run assumes fairness.

## Proofs

All constants are arbitrary, within the named assumptions: `HashAssumption`
(the number of files divides 2^31, as 64 does), `ValueAssumption`,
`EngineAssumption`, `LifecycleAssumption`, `ProgramAssumption`,
`JavaAssumption`, `TreeAssumption` (the order is at least 4), `RangeAssumption`,
`KeyAssumption` and `StringsAssumption` (a key is `BPT_MOVE_STEP` chars, and the
tree is given the numbers of such keys).

`ValueResourcesProofs`:

* `TypeCorrect`: `Spec => []TypeOK`.  Rests on `BucketInRange`: the bucket of any
  `int`, `-INT_MIN` included, is the number of a file.
* `FilesAppendOnly`: `Spec => AppendOnly`, without any further assumption; short
  writes, kills and overlapping readers included.
* `AcknowledgedValuesStored`: if `MaxShort = 0`, `[]AckedStored`.  Inductive
  invariant `StoredInv`: who is inside the critical section holds the mutex; the
  buffer is empty from the seek to the write; the value is in file plus buffer
  after the write and in the file after the flush.  It says nothing of offsets,
  which is why it survives readers that move the stream.
* `AcknowledgedOffsetsRight`: if also `~Overlap`, `[]AckedPlaced`.  Inductive
  invariant `PlacedInv`, which adds what the writer knows of the position and the
  offset between two of its calls, and that reads and writes are `Separate`.
  `~Overlap` is used for nothing but `Separate`, which is how the program, where
  `Overlap` may be anything, can use the same lemmas.
* `OneReaderReadsRight`: if also at most one thread reads,
  `[]ReadReturnsWritten`.  Inductive invariant `ReadInv`, which adds that the
  stream is where the reader's seek left it.
* `WriterInvariant`, `ReaderInvariant`: `[]StoredInv` and `[]ReadInv`, which runs
  check as well.

The three theorems on values need exactly the assumptions whose absence is fatal:
no short write (`engine_mixed` with `MaxShort = 1`), no read beside a write
(`vr_read_during_write`), one reader (`program_readers`).

`EngineRaceProofs`, for `Wired = TRUE`:

* `EngineUsesValueFiles`: `EngineSpec => UsesValueFiles`; every step of the engine
  is a step of `ValueResources` or none, but that in a tree without a root the
  engine may read at any offset (`AnyRead`).  The lemmas behind the theorems above
  are about `AnyNext`, which has that step, so they hold of the engine.
* `IndexAlwaysValid`: `[]IndexValid`.
* `WrittenKeysFound`: `[]WrittenIsFound`, with any overlap.  A kill counts: outside an
  insert it loses nothing; inside one, keys written before are no longer `done`, and
  a tree that lost its root is excepted.  All
  three from `EngineInv`: what the index holds was returned by `write`; the
  engine's place in a call and the value files' place agree (`Nested`); in a tree that
  has its root, a key written since the last kill inside an insert, or that a `Read`
  is owed, is in the index (`DoneIndexed`).  `EngineInvariant` states it by itself.
* `EngineIsAStore`, if moreover `~Overlap`, `MaxShort = 0` and at most one thread
  reads: `EngineSpec => Linearizable`, the engine implements `KVStore`, whose `Kill`
  takes the calls and nothing else when no `Write` runs, and may take keys or break the
  map when one does (or, while the map is empty, at any time: the creation).
  From `EngineInv` and `ReadInv` together (`Sound`).  What an offset of the index
  addresses is the acknowledged value, before a step and after it
  (`AckedValue`), so a step that leaves the index alone leaves the map alone
  (`StoreKept`), and a `Read` that has its offset has its answer, wherever it is
  in the value file (`AnswerIs`).  Then one lemma per kind of step: the entry into
  the index is `Put`, the look-up is `Get`, calls and returns are calls and
  returns, a kill is `Kill` (`KillKills`), and the steps inside the value files are unseen.

`EngineLifecycleProofs`, for any number of engines and callers:

* `LifecycleCorrect`: the inductive invariant `LifecycleInv`.  Its parts: both
  pointers are of the last `Open` or null, but for the steps between (`Paired`);
  a pointer that is not about to be reset addresses an object (`Addressed`); what
  calls that keep apart have seen (`KeptApart`); which objects exist when one
  engine is open at a time, at each step of main (`KeptAlone`); a call meets its
  own engine's objects (`CallsAtHome`).
* `NothingFreedIsUsed`, `OneOpenForBoth`, `OneEngineIsSafe`: the three properties
  of `lifecycle`.

`TestProgramProofs`, for any number of threads, calls, rounds and kills:

* `NoCallWithoutEngine`: `ProgramSpec => []NoNullUse`.
* `ProgramPhased`: `ProgramSpec => []Phased`, which is the condition `~Overlap` of
  the theorems on offsets, here brought about by the joins.  Both from `Joined`: a
  thread is inside the engine only in the phase of its kind, and the others have
  no call left.
* `ProgramUsesEngine` (`Wired`): `ProgramSpec => EngineSpec`, so what
  `EngineRaceProofs` shows without `~Overlap` holds of the program, up to the same kills.
* `ProgramOffsetsRight` (`Wired`, `MaxShort = 0`): `[]AckedPlaced`, with any number
  of readers and `Overlap` left open.  `ProgramPlace` puts `Joined` and `EngineInv`
  together; from it follows that reads and writes are `Separate`.
* `ProgramReadsRight` (moreover at most one reader): `[]NoReadError`, which is
  about programs whose tree has its root; kills inside an insert that cost keys are
  included, because the program lists only keys of its own run.  Invariant
  `Told`, beside `ReadInv` and `ProgramPlace`: a listed key is done, so its `Read` is
  owed an offset; each value was stored under its own key; what a `Read` carries at
  its end is a value of the key it was asked for.
* `ProgramSeesAStore` (as the last): `ProgramSpec => Linearizable`, kills as in `KVStore`.

`JavaEngineProofs`, for any number of threads, keys, values, writes and kills:

* `JavaInvariant`: `JavaSpec => []JavaInv`.  Its parts: who is inside
  `synchronized` is the monitor's owner (`Monitored`); what a thread's place says of
  its key, value and handle, whoever won the race of `getDatabaseFile` (`Placed`);
  what a writer knows of the end of `value.db` between seek and write, and that its
  value lies at its position from then on (`WriterKnows`); that the value a reader
  waits for still lies where its lookup said (`ReaderKnows`); and which entry of
  `key.db` is a key's last (`KeyFileRight`), which is what a kill leaves.
* `AcknowledgedReadable`, `ReadsExact`: `[]AckedReadable` and `[]ReadExact`, two of
  its conjuncts.  The step that needs most is the kill: `GetMap` folds `Put`s over
  `key.db`, so what the fold gives for a key is its last entry, and appending an
  entry adds one `Put` unless the file is torn (`DataFacts` has the fold, by
  induction on numbers that are bound in a set).

`BPlusTreeProofs`, for every order from 4 on, any keys, any number of inserts,
updates and reopenings:

* `TreeInvariant`: `Spec => []TreeInv`.  The nodes are described by level, without
  recursion: `path[h][k]` is the node of level h that search meets on its way to
  k; it is the root at the top (`Paths`), the node above determines it by one
  lookup, and no node lies on no path.  A node knows its parent and has a child
  once (`Kin`); its separators increase and are keys whose path leads there
  (`Separators`); a leaf holds exactly the keys of `dict` whose path leads there
  (`Records`).  While a split climbs, `up` stands for the entry that the parent has
  not got yet: `Goes` corrects the lookup by it, and `Waits` says how the two halves
  lie.  `Filled` counts.  None of this is about the file: `Pending` says that the
  file is that tree but for the writes in `todo`, in which the last write of a block
  is its content.  So the proof has two halves.  `Unmap` changes the file and keeps
  the tree.  A step of an operation changes the tree and fills `todo`: an
  insertion into a leaf or node is one lemma, cutting a node in two another, and a
  split is first the one, then the other; a new root adds a level.
* `SearchRight`: `[]SearchFinds`.  Search goes down by `path`, so it ends in the
  leaf that `Records` names.
* `FillRight`: `[]MinFill`; the halves of a split differ by the parity of the order,
  and both stay above the least fill.
  The rows come to this as a third part, `Rowed`: `next` and `prev` of a node are
  the nodes before and after it in its level (`Follows` and `Leads`, said by the
  paths of neighbouring keys), but for the writes in `todo` (`Carried`), and the
  counts of the meta block are those of the levels (`Counted`).
* `ParentRight`: `[]ParentsRight`, `ChainRight`: `[]ChainsRight`, `AccountRight`:
  `[]Accounted`.  `Levels` concatenates the children of one level to get the next;
  by induction over the levels each is a row: it has the nodes of its level, each
  once, in the order of their keys (`LevelsAre`, with `FlattenIs` for the
  concatenation).  In a row the node that `Follows` is the next element, and the
  length is the number of nodes.
* `TreeTypes`: `[]TypeOK`.

`BPlusTreeKeysProofs`, for the same trees:

* `RangeRight`: `[]RangeExact`, for any range and any `max` from 1 on.  The walk along
  `next` is a function defined by itself; that it exists, whatever block it starts
  from, and is the only one follows from a rank, the blocks still ahead in the row
  (`WalkEnds`, `WalkExists`, `WalkIsOne`).  Then, from the last leaf backwards: what
  the walk copies from a leaf on is a beginning of the records of the range that
  lie in that leaf and behind it, all of them unless `max` is reached, and `*next`
  is what comes after (`Found`; `CutFound` where `max` cuts a leaf, `JoinFound`
  where the walk goes on).  `PresentIs` and `CopiedCount` relate this to the
  property, which counts smaller keys.
* `OrderRight`: `[]KeysInOrder`.  The leaves in a row hold increasing numbers
  (`StoredIs`), and the number of a key is smaller where, at the first difference,
  its digit is (`NumberOrder`: what is shifted in later cannot make up for it).
  Digits have the order of bytes except among negative chars (`SmallerPrecedes`).
* `TreeIsAStringMap`: `Spec => ImplementsStringMap`.  Keys of one length are told
  apart by their numbers (`NumbersTell`), so an insert or update of one number is
  one of one string; search finds what was put in (`HeldIs`), and every other
  step leaves that alone.

These are about `Spec` of `BPlusTree`, without removal; the run `tree_remove` checks
the last three with removal too.  `BPlusTreeRemove` and `BPlusTreeCrash` have no
theorems: removal breaks search at order 6 and more (`tree_borrow_left`), so there
is nothing to prove of it for every order, and a kill leaves blocks that belong to
no tree and chains that lead to them, which `TreeInv` has no place for: `Paths`
wants every block on the way to some key.

Only model-checked: liveness (`Ends`: out of the prover's reach); what
removal leaves of the tree (`TreeSized`, `LastKeysKept`); what a kill inside a tree
operation costs and leaves (`SurvivorsFound`, `SurvivorsParented`, `KillConfined`),
which would need an invariant with lost blocks in it.

## Not modelled

* `search_range` with `max = 0`, which reads uninitialized pointers, and the write
  past a full node's array at `bt.cc:315`, which is cut off again at once.
* What `change_parent_child` would do above the root (it would read the meta
  block as a node): it stops at a key that is not the last, and a neighbour to
  borrow from means that there is one.
* A block write that is itself torn by a kill.
* What the code does with a tree that has no root (it follows a block that is not
  there, or builds a second root): `BPlusTreeCrash` stops there, and `EngineRace`
  answers anything.
* In `EngineRace` a kill inside an insert takes any keys, where `KillConfined` says
  neighbours: the map has no neighbours.
* Failing `fopen`, and read errors: the code checks for neither.
* `Range` (a stub), `create.cc` (makes directories and an empty file),
  `PolarString` but for `compare`, the return codes nothing returns.
* Of `main.cc`: the random generators (any value, any listed key stands for
  them), `sequentialRead` and `MyVisitor` (never called), printing and timing.
* Of the Java engine: `range`, which reads its values from `key.db`
  (`EngineRace.java:96`) and takes no lock, so that beside writes it may move the
  position under them; an `IOException` in `write`, which is printed and swallowed
  (66-68), so that `write` returns as if it had succeeded; calls after `close` (every file access
  throws); a value write that is itself torn; the order of the keys in the
  `TreeMap`, which lookups need only to be total, and is.
* Build files and IDE settings.

## Plan

Done: value files, engine and abstract store; the tree with removal, range
search, kills and keys; lifecycle, test program, Java engine; the proofs above.

Left:

1. A variant of `BPlusTreeRemove` with the three repairs, shown to implement
   `IndexMap` with removal on the trees that break the code.
2. The Java engine's `range`, and what its unlocked seek of `key.db` does to a write.
