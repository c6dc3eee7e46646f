---------------------------- MODULE TestProgram ----------------------------
(***************************************************************************)
(* CPP/main.cc over the engine: rounds of open, writer threads, join,      *)
(* delete; then open, reader threads, join, delete.  A writer draws a      *)
(* value, whose bytes give its key, writes it and lists the key; a reader  *)
(* draws a listed key and compares it with the key of the value it got.    *)
(*                                                                         *)
(* The threads call the engine with Overlap = TRUE: that reads and writes  *)
(* keep apart is main's doing, by its joins.  The process may be killed    *)
(* and the program started again on the same directory.                    *)
(***************************************************************************)
EXTENDS EngineRace

CONSTANTS
  numWrite, numRead,  \* calls of each writer (all rounds) and of each reader
  numKills,           \* rounds of writing
  KeyFromValue,       \* key_from_value: the key of each value
  MaxRuns             \* bound: how often the program is started

ASSUME ProgramAssumption ==
  /\ numWrite \in Nat /\ numRead \in Nat
  /\ numKills \in Nat \ {0} /\ MaxRuns \in Nat \ {0}
  /\ KeyFromValue \in [Vals -> Keys]

VARIABLES
  mpc,      \* where main is
  nk,       \* rounds done
  live,     \* do the engine's static pointers point to its objects?
  listed,   \* keys: what the writers have added (main sorts it, once each)
  left,     \* per thread: iterations left
  runs      \* how often the program has been started

pvars == <<evars, mpc, nk, live, listed, left, runs>>

ProgramInit ==
  /\ EngineInit
  /\ mpc = "open" /\ nk = 0 /\ live = FALSE
  /\ listed = {}
  /\ left = [t \in Threads |-> 0]
  /\ runs = 1

Finished(threads) == \A t \in threads : left[t] = 0 /\ epc[t] = "idle"
Give(threads, n)  == left' = [t \in Threads |-> IF t \in threads THEN n ELSE 0]

-----------------------------------------------------------------------------
(* main *)

\* Engine::Open, and a thread for each CPU.
StartWriters ==
  /\ mpc = "open"
  /\ mpc' = "write" /\ live' = TRUE
  /\ Give(Writers, numWrite \div numKills)
  /\ UNCHANGED <<evars, nk, listed, runs>>

DeleteEngine == live' = FALSE /\ CloseEngine

\* Fault: main does not wait for its writers.
CloseWritten_NoJoin ==
  /\ mpc = "write"
  /\ DeleteEngine
  /\ nk' = nk + 1
  /\ mpc' = IF nk + 1 < numKills THEN "open" ELSE "reopen"
  /\ UNCHANGED <<listed, left, runs>>

\* join, then delete
CloseWritten ==
  /\ mpc = "write" /\ Finished(Writers)
  /\ DeleteEngine
  /\ nk' = nk + 1
  /\ mpc' = IF nk + 1 < numKills THEN "open" ELSE "reopen"
  /\ UNCHANGED <<listed, left, runs>>

\* Fault: the engine that was deleted is used again.
StartReaders_NoOpen ==
  /\ mpc = "reopen"
  /\ mpc' = "read"
  /\ Give(Readers, IF listed = {} THEN 0 ELSE numRead)
  /\ UNCHANGED <<evars, nk, live, listed, runs>>

StartReaders ==
  /\ mpc = "reopen"
  /\ mpc' = "read" /\ live' = TRUE
  /\ Give(Readers, IF listed = {} THEN 0 ELSE numRead)
  /\ UNCHANGED <<evars, nk, listed, runs>>

CloseRead ==
  /\ mpc = "read" /\ Finished(Readers)
  /\ DeleteEngine
  /\ mpc' = "end"
  /\ UNCHANGED <<nk, listed, left, runs>>

-----------------------------------------------------------------------------
(* write: one iteration is a call and keys.add, under the vector's mutex *)

WriteOne(t, v) ==
  /\ mpc = "write" /\ left[t] > 0
  /\ Write(t, KeyFromValue[v], v)
  /\ left' = [left EXCEPT ![t] = @ - 1]
  /\ UNCHANGED <<mpc, nk, live, listed, runs>>

AddKey(t) ==
  /\ WriteReturns(t)
  /\ listed' = listed \union {key[t]}
  /\ UNCHANGED <<mpc, nk, live, left, runs>>

-----------------------------------------------------------------------------
(* randomRead *)

ReadOne(t, k) ==
  /\ mpc = "read" /\ left[t] > 0
  /\ Read(t, k)
  /\ left' = [left EXCEPT ![t] = @ - 1]
  /\ UNCHANGED <<mpc, nk, live, listed, runs>>

\* May key_from_value(val) be the key that was asked for?  Of the empty
\* string of a Read that fails it reads past the end, of a mix of values
\* bytes of either: anything.
Outcomes(t) ==
  IF ret[t] = "kSucc" /\ Delivered(t) \in Vals
  THEN {KeyFromValue[Delivered(t)] = want[t]}
  ELSE BOOLEAN

\* exit(-1) ends the process.
CompareKey(t) ==
  /\ ReadReturns(t)
  /\ \E same \in Outcomes(t) : mpc' = IF same THEN mpc ELSE "error"
  /\ UNCHANGED <<nk, live, listed, left, runs>>

\* Inside a call of the engine
CallStep(t) ==
  /\ ValueWrite(t) \/ Insert(t) \/ Update(t) \/ Get(t) \/ ValueRead(t)
  /\ UNCHANGED <<mpc, nk, live, listed, left, runs>>

-----------------------------------------------------------------------------
\* The process is killed; somebody starts the program again.
KillAndRun ==
  /\ runs < MaxRuns
  /\ mpc # "end"
  /\ KillAndOpen
  /\ mpc' = "open" /\ nk' = 0 /\ live' = FALSE
  /\ listed' = {}
  /\ left' = [t \in Threads |-> 0]
  /\ runs' = runs + 1

MainStep == StartWriters \/ CloseWritten \/ StartReaders \/ CloseRead
ThreadStep(t) ==
  /\ mpc # "error"
  /\ \/ \E v \in Vals : WriteOne(t, v)
     \/ \E k \in listed : ReadOne(t, k)
     \/ CallStep(t) \/ AddKey(t) \/ CompareKey(t)

ProgramNext ==
  \/ MainStep
  \/ \E t \in Threads : ThreadStep(t)
  \/ KillAndRun

\* The operating system schedules main and every thread again and again.  A
\* mutex need not be fair: each thread makes finitely many calls.
ProgramSpec ==
  /\ ProgramInit /\ [][ProgramNext]_pvars
  /\ WF_pvars(MainStep)
  /\ \A t \in Threads : WF_pvars(ThreadStep(t))

-----------------------------------------------------------------------------
\* The program never prints "Random Read error" (main.cc:161-169) as long as
\* the tree has its root: every key that is read delivers a value of that key,
\* whatever the order of the writers, overwriting, and keys that kills of
\* earlier runs lost.  An earlier run that was killed while the tree was
\* created or grew a level can leave a tree without a root, and then it may.
NoReadError == rooted => mpc # "error"

\* No thread is inside the engine while its objects do not exist: main
\* deletes it only when every thread of the round has ended.
NoNullUse == \A t \in Threads : epc[t] # "idle" => live

\* main's joins keep writes and reads apart, which is all that the value
\* files ask for in order to return right offsets.
Phased == \A t, u \in Threads : epc[t] \in InWrite => epc[u] \notin InRead

\* Why: a thread is inside the engine only in the phase of its kind.
Joined ==
  /\ epc  \in [Threads -> {"idle"} \union InWrite \union InRead]
  /\ left \in [Threads -> Int]
  /\ \A t \in Threads :
       /\ epc[t] \in InWrite => mpc = "write" /\ t \in Writers
       /\ epc[t] \in InRead => mpc \in {"read", "error"} /\ t \in Readers
       /\ mpc = "write" /\ t \notin Writers => left[t] = 0
       /\ mpc = "read" /\ t \notin Readers => left[t] = 0
  /\ mpc \in {"write", "read", "error"} => live

\* Why no read goes wrong: a value is stored under its own key and, as long
\* as the tree has its root, a listed key is done and a Read that succeeds
\* carries a value of the key it was asked.
Told ==
  /\ \A a \in acked : a.key = KeyFromValue[a.val]
  /\ \A t \in Threads : epc[t] = "value_write" => key[t] = KeyFromValue[val[t]]
  /\ rooted =>
       /\ mpc # "error"
       /\ listed \subseteq done
       /\ \A t \in Threads :
            /\ epc[t] \in InRead => owed[t]
            /\ epc[t] = "read_end" =>
                 \E v \in Vals : got[t] = Cells(v) /\ KeyFromValue[v] = want[t]

\* The program ends: no thread hangs in the engine and main waits for none
\* for ever.  (What an operation on a tree without a root does is open.)
Ends == <>(mpc \in {"end", "error"} \/ ~rooted)
=============================================================================
