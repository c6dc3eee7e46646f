-------------------------- MODULE JavaEngineProofs --------------------------
(***************************************************************************)
(* Proofs that, for any number of threads, keys, writes and kills, the map *)
(* in memory gives every key its last value, but for what torn entries     *)
(* cost, and that every read is exact.                                     *)
(***************************************************************************)
EXTENDS JavaEngine, DataFacts, TLAPS

-----------------------------------------------------------------------------
(* Positions, and what lies where.                                         *)

\* The position of a value leads back to it.
LEMMA DivPosition ==
  ASSUME NEW i \in Nat
  PROVE  Position(i) \in Nat /\ Position(i) \div ValueSize = i
<1>1. Position(i) \in Nat
  BY JavaAssumption DEF Position
<1> DEFINE q == Position(i) \div ValueSize
<1>2. q \in Int
  BY JavaAssumption, <1>1
<1>3. q * ValueSize <= i * ValueSize /\ i * ValueSize < (q + 1) * ValueSize
  BY JavaAssumption, <1>1 DEF Position
<1> HIDE DEF q
<1>4. ~ (q < i)
  <2>1. SUFFICES ASSUME q + 1 <= i PROVE FALSE
    BY <1>2
  <2>2. (q + 1) * ValueSize <= i * ValueSize
    BY <2>1, <1>2, JavaAssumption
  <2> QED BY <2>2, <1>2, <1>3, JavaAssumption
<1>5. ~ (i < q)
  <2>1. SUFFICES ASSUME i + 1 <= q PROVE FALSE
    BY <1>2
  <2>2. (i + 1) * ValueSize <= q * ValueSize
    BY <2>1, <1>2, JavaAssumption
  <2>3. (i + 1) * ValueSize = i * ValueSize + ValueSize
    BY JavaAssumption
  <2> QED BY <2>2, <2>3, <1>2, <1>3, JavaAssumption
<1>6. q = i
  BY <1>2, <1>4, <1>5
<1> QED BY <1>1, <1>6 DEF q

LEMMA DivNatural ==
  ASSUME NEW n \in Nat
  PROVE  n \div ValueSize \in Nat
<1> DEFINE q == n \div ValueSize
<1>1. q \in Int /\ n < (q + 1) * ValueSize
  BY JavaAssumption
<1> HIDE DEF q
<1>2. ~ (q + 1 <= 0)
  <2>1. SUFFICES ASSUME q + 1 <= 0 PROVE FALSE
    OBVIOUS
  <2>2. (q + 1) * ValueSize <= 0
    BY <1>1, <2>1, JavaAssumption
  <2> QED BY <1>1, <2>2, JavaAssumption
<1>3. q \in Nat
  BY <1>1, <1>2
<1> QED BY <1>3 DEF q

\* What AckedReadable says of one key is that its value lies at its position.
LEMMA LiesValue ==
  ASSUME NEW vs \in Seq(Vals), NEW p, NEW v
  PROVE  Lies(vs, p, v) <=> /\ p \in {Position(i - 1) : i \in DOMAIN vs}
                            /\ vs[p \div ValueSize + 1] = v
<1>1. ASSUME NEW i \in DOMAIN vs, p = Position(i - 1)
      PROVE  p \div ValueSize + 1 = i
  <2>1. i - 1 \in Nat
    OBVIOUS
  <2> QED BY <1>1, <2>1, DivPosition
<1> QED BY <1>1 DEF Lies

\* A value that is appended moves nothing.
LEMMA LiesAppend ==
  ASSUME NEW vs \in Seq(Vals), NEW w \in Vals
  PROVE  /\ \A p, v : Lies(vs, p, v) => Lies(Append(vs, w), p, v)
         /\ Lies(Append(vs, w), Position(Len(vs)), w)
<1>1. \A i \in DOMAIN vs : i \in DOMAIN Append(vs, w) /\ Append(vs, w)[i] = vs[i]
  OBVIOUS
<1>2. Len(vs) + 1 \in DOMAIN Append(vs, w) /\ Append(vs, w)[Len(vs) + 1] = w
  OBVIOUS
<1>3. Len(vs) = (Len(vs) + 1) - 1
  OBVIOUS
<1> QED BY <1>1, <1>2, <1>3 DEF Lies

\* Moving a handle.
LEMMA SeekExcept ==
  ASSUME NEW s \in Seq(Nat), NEW h, NEW n \in Nat
  PROVE  /\ [s EXCEPT ![h] = n] \in Seq(Nat) /\ Len([s EXCEPT ![h] = n]) = Len(s)
         /\ DOMAIN [s EXCEPT ![h] = n] = DOMAIN s
         /\ h \in DOMAIN s => [s EXCEPT ![h] = n][h] = n
<1> DEFINE e == [s EXCEPT ![h] = n]
<1>1. e \in [1 .. Len(s) -> Nat] /\ Len(s) \in Nat
  <2>1. e = [x \in 1 .. Len(s) |-> IF x = h THEN n ELSE s[x]]
    OBVIOUS
  <2> HIDE DEF e
  <2> QED BY <2>1
<1>2. h \in DOMAIN s => e[h] = n
  OBVIOUS
<1> HIDE DEF e
<1>3. e \in Seq(Nat) /\ DOMAIN e = 1 .. Len(s)
  BY <1>1
<1>4. Len(e) = Len(s)
  BY <1>1, <1>3
<1> QED BY <1>2, <1>3, <1>4 DEF e

-----------------------------------------------------------------------------
(* Types, the monitor, and the place of each thread.                       *)

LEMMA InitInv == JavaInit => JavaInv
<1> SUFFICES ASSUME JavaInit PROVE JavaInv
  OBVIOUS
<1> USE JavaAssumption DEF JavaInit, ForAll
<1>1. JavaTypeOK
  BY DEF JavaTypeOK
<1>2. Monitored /\ Placed /\ WriterKnows /\ ReaderKnows /\ ReadExact
  BY DEF Monitored, Placed, WriterKnows, ReaderKnows, ReadExact, Inside, WriterInside,
         ReaderInside, Threads
<1>3. KeyFileRight
  BY DEF KeyFileRight, Entries, Torn
<1>4. AckedReadable
  BY DEF AckedReadable
<1> QED BY <1>1, <1>2, <1>3, <1>4 DEF JavaInv

LEMMA JavaTypeStep ==
  ASSUME JavaTypeOK, Monitored, Placed, WriterKnows, [JavaNext]_jvars
  PROVE  JavaTypeOK'
<1> USE JavaAssumption DEF JavaTypeOK, disk, statics, locals, history, Threads
<1>1. ASSUME NEW t \in Writers, NEW k \in Keys, NEW v \in Vals, BeginWrite(t, k, v)
      PROVE  JavaTypeOK'
  BY <1>1 DEF BeginWrite, Step, ReaderInside
<1>2. ASSUME NEW t \in Readers, NEW k \in Keys, BeginRead(t, k)
      PROVE  JavaTypeOK'
  BY <1>2 DEF BeginRead, Step
<1>3. ASSUME NEW t \in Threads, Check(t)
      PROVE  JavaTypeOK'
  BY <1>3 DEF Check, Step, ReaderInside
<1>4. ASSUME NEW t \in Threads, Create(t)
      PROVE  JavaTypeOK'
  BY <1>4 DEF Create, Step, ReaderInside
<1>5. ASSUME NEW t \in Threads, ReturnFile(t)
      PROVE  JavaTypeOK'
  BY <1>5 DEF ReturnFile, Step, ReaderInside
<1>6. ASSUME NEW t \in Threads, Enter(t)
      PROVE  JavaTypeOK'
  BY <1>6 DEF Enter, Step, ReaderInside, WriterInside
<1>7. ASSUME NEW t \in Threads, SeekValue(t)
      PROVE  JavaTypeOK'
  <2>1. Len(values) \in Nat
    OBVIOUS
  <2> QED BY <1>7, <2>1, DivPosition, SeekExcept DEF SeekValue, Step, WriterInside
<1>8. ASSUME NEW t \in Threads, WriteValue(t)
      PROVE  JavaTypeOK'
  <2>1. t \in Writers /\ val[t] \in Vals /\ seek[mine[t]] = Len(values)
    BY <1>8 DEF WriteValue, Step, WriterInside, Placed, WriterKnows
  <2>2. Len(values) + 1 \in Nat /\ Append(values, val[t]) \in Seq(Vals)
    BY <2>1
  <2>3. values' = Append(values, val[t]) /\ seek' = [seek EXCEPT ![mine[t]] = Len(values) + 1]
    BY <1>8, <2>1 DEF WriteValue
  <2>4. seek' \in Seq(Nat) /\ Len(seek') = Len(seek)
    BY <2>2, <2>3, SeekExcept
  <2> QED BY <1>8, <2>2, <2>3, <2>4 DEF WriteValue, Step, WriterInside
<1>9. ASSUME NEW t \in Threads, WriteKey(t)
      PROVE  JavaTypeOK'
  <2>1. key[t] \in Nat
    BY <1>9 DEF WriteKey, Step, Placed
  <2> QED BY SMTT(30), <1>9, <2>1 DEF WriteKey, Step, WriterInside
<1>10. ASSUME NEW t \in Threads, WritePosition(t)
       PROVE  JavaTypeOK'
  <2>1. key[t] \in Keys /\ val[t] \in Vals
    BY <1>10 DEF WritePosition, Step, WriterInside, Placed
  <2> QED BY <1>10, <2>1 DEF WritePosition, Step, WriterInside
<1>11. ASSUME NEW t \in Threads, Put(t)
       PROVE  JavaTypeOK'
  BY <1>11 DEF Put, Step, Forget
<1>12. ASSUME NEW t \in Threads, Get(t)
       PROVE  JavaTypeOK'
  <2>1. PICK p \in Lookups(key[t]) :
          /\ pc' = [pc EXCEPT ![t] = IF p = NoValue THEN "read_end" ELSE "enter"]
          /\ at' = [at EXCEPT ![t] = IF p = NoValue THEN 0 ELSE p]
          /\ expect' = [expect EXCEPT ![t] =
               IF key[t] \in risk \/ \E u \in Threads : pc[u] = "put" THEN Unknown
               ELSE stored[key[t]]]
    BY <1>12 DEF Get, Step
  <2>2. key[t] \in Keys /\ stored[key[t]] \in Vals \union {NoValue}
    BY <1>12 DEF Get, Step, Placed
  <2>3. p \in Nat \union {NoValue}
    BY <2>1 DEF Lookups
  <2>4. at' \in [Threads -> Nat]
    BY <2>1, <2>3
  <2>5. expect' \in [Threads -> Vals \union {NoValue, Unknown}]
    BY <2>1, <2>2
  <2>6. pc' \in [Threads -> {"idle", "enter", "get", "read_end"} \union WriterInside \union ReaderInside]
    BY <2>1
  <2>7. got' \in [Threads -> Vals \union {NoValue}]
    BY <1>12 DEF Get
  <2>8. UNCHANGED <<values, words, up, tree, seek, handles, databaseFile, monitor, key, val,
                    mine, stored>>
    BY <1>12 DEF Get
  <2> QED BY <2>4, <2>5, <2>6, <2>7, <2>8
<1>13. ASSUME NEW t \in Threads, SeekRead(t)
       PROVE  JavaTypeOK'
  <2>1. at[t] \div ValueSize \in Nat
    <3>1. at[t] \in Nat
      OBVIOUS
    <3> QED BY <3>1, DivNatural
  <2>2. seek' \in Seq(Nat) /\ Len(seek') = Len(seek)
    BY <1>13, <2>1, SeekExcept DEF SeekRead
  <2> QED BY <1>13, <2>2 DEF SeekRead, Step, ReaderInside
<1>14. ASSUME NEW t \in Threads, ReadValue(t)
       PROVE  JavaTypeOK'
  <2>1. mine[t] \in DOMAIN seek
    BY <1>14 DEF ReadValue, Step, Placed
  <2>4. seek[mine[t]] \in Nat
    BY <2>1
  <2>2. seek' \in Seq(Nat) /\ Len(seek') = Len(seek)
    <3>1. CASE seek' = seek
      BY <3>1
    <3>2. CASE seek' # seek
      <4> DEFINE n == seek[mine[t]] + 1
      <4>1. seek' = [seek EXCEPT ![mine[t]] = n]
        BY <1>14, <3>2, Zenon DEF ReadValue
      <4>2. n \in Nat
        BY <2>4
      <4> HIDE DEF n
      <4> QED BY <4>1, <4>2, SeekExcept
    <3> QED BY <3>1, <3>2
  <2>3. got' \in [Threads -> Vals \union {NoValue}]
    BY <1>14, <2>4 DEF ReadValue
  <2> QED BY <1>14, <2>2, <2>3 DEF ReadValue, Step
<1>15. ASSUME NEW t \in Threads, ReadReturns(t)
       PROVE  JavaTypeOK'
  BY <1>15 DEF ReadReturns, Step, Forget
<1>16. CASE KillAndOpen
  <2>1. ASSUME NEW k \in DOMAIN tree' PROVE tree'[k] \in Nat \union {NoValue}
    <3> DEFINE n == 1 + Max({i \in Entries(words) : words[i] = k})
    <3>1. tree'[k] = Word(words, n)
      BY <1>16, <2>1 DEF KillAndOpen, GetMap
    <3>2. n \in Nat \ {0}
      <4> DEFINE S == {i \in Entries(words) : words[i] = k}
      <4>1. S # {} /\ S \subseteq 0 .. Len(words) /\ Len(words) \in Nat
        BY SMTT(30), <1>16, <2>1 DEF KillAndOpen, GetMap, Entries
      <4>2. PICK i \in S : \A j \in S : j <= i
        BY <4>1, GreatestNatural
      <4>3. Max(S) = i
        <5>1. S \subseteq Nat
          BY <4>1
        <5> HIDE DEF S
        <5> QED BY <5>1, <4>2, MaxIs
      <4> QED BY SMTT(30), <4>1, <4>3
    <3> QED BY <3>1, <3>2 DEF Word
  <2> QED BY <1>16, <2>1 DEF KillAndOpen, ForAll
<1>17. CASE Close \/ OpenAgain
  BY SMTT(30), <1>17 DEF Close, OpenAgain
<1>18. CASE UNCHANGED jvars
  BY <1>18 DEF jvars
<1> QED
  BY <1>1, <1>2, <1>3, <1>4, <1>5, <1>6, <1>7, <1>8, <1>9, <1>10, <1>11, <1>12, <1>13, <1>14,
     <1>15, <1>16, <1>17, <1>18 DEF JavaNext

LEMMA MonitoredStep ==
  ASSUME JavaTypeOK, Placed, Monitored, [JavaNext]_jvars
  PROVE  Monitored'
<1> USE JavaAssumption DEF JavaTypeOK, Placed, Monitored, Inside, WriterInside, ReaderInside,
        Threads, disk, statics, locals, history
<1>1. ASSUME NEW t \in Writers, NEW k \in Keys, NEW v \in Vals, BeginWrite(t, k, v)
      PROVE  Monitored'
  <2>1. pc[t] = "idle" /\ pc' = [pc EXCEPT ![t] = "check"] /\ monitor' = monitor /\ up = "open"
        /\ up' = up
    BY <1>1 DEF BeginWrite, Step
  <2>2. \A u \in Threads : pc'[u] = IF u = t THEN "check" ELSE pc[u]
    BY <2>1
  <2>3. \A u \in Threads : Inside(u)' <=> Inside(u)
    BY ZenonT(60), <2>1, <2>2
  <2> QED BY <2>1, <2>3
<1>2. ASSUME NEW t \in Readers, NEW k \in Keys, BeginRead(t, k)
      PROVE  Monitored'
  BY <1>2 DEF BeginRead, Step
<1>3. ASSUME NEW t \in Threads, Check(t)
      PROVE  Monitored'
  <2>1. PICK to \in {"create", "return_file"} :
          pc[t] = "check" /\ pc' = [pc EXCEPT ![t] = to] /\ up = "open" /\ up' = up
    BY <1>3 DEF Check, Step
  <2>2. monitor' = monitor
    BY <1>3 DEF Check
  <2> QED BY <2>1, <2>2
<1>4. ASSUME NEW t \in Threads, Create(t)
      PROVE  Monitored'
  BY <1>4 DEF Create, Step
<1>5. ASSUME NEW t \in Threads, ReturnFile(t)
      PROVE  Monitored'
  BY <1>5 DEF ReturnFile, Step
<1>6. ASSUME NEW t \in Threads, Enter(t)
      PROVE  Monitored'
  BY <1>6 DEF Enter, Step
<1>7. ASSUME NEW t \in Threads, SeekValue(t)
      PROVE  Monitored'
  BY <1>7 DEF SeekValue, Step
<1>8. ASSUME NEW t \in Threads, WriteValue(t)
      PROVE  Monitored'
  BY <1>8 DEF WriteValue, Step
<1>9. ASSUME NEW t \in Threads, WriteKey(t)
      PROVE  Monitored'
  BY <1>9 DEF WriteKey, Step
<1>10. ASSUME NEW t \in Threads, WritePosition(t)
       PROVE  Monitored'
  BY <1>10 DEF WritePosition, Step
<1>11. ASSUME NEW t \in Threads, Put(t)
       PROVE  Monitored'
  BY <1>11 DEF Put, Step
<1>12. ASSUME NEW t \in Threads, Get(t)
       PROVE  Monitored'
  <2>1. PICK to \in {"read_end", "enter"} :
          pc[t] = "get" /\ pc' = [pc EXCEPT ![t] = to] /\ up = "open" /\ up' = up
    BY <1>12 DEF Get, Step
  <2>2. monitor' = monitor
    BY <1>12 DEF Get
  <2> QED BY <2>1, <2>2
<1>13. ASSUME NEW t \in Threads, SeekRead(t)
       PROVE  Monitored'
  BY <1>13 DEF SeekRead, Step
<1>14. ASSUME NEW t \in Threads, ReadValue(t)
       PROVE  Monitored'
  BY <1>14 DEF ReadValue, Step
<1>15. ASSUME NEW t \in Threads, ReadReturns(t)
       PROVE  Monitored'
  BY <1>15 DEF ReadReturns, Step
<1>16. CASE KillAndOpen
  BY <1>16 DEF KillAndOpen, ForAll
<1>17. CASE Close \/ OpenAgain
  BY <1>17 DEF Close, OpenAgain
<1>18. CASE UNCHANGED jvars
  BY <1>18 DEF jvars
<1> QED
  BY <1>1, <1>2, <1>3, <1>4, <1>5, <1>6, <1>7, <1>8, <1>9,
     <1>10, <1>11, <1>12, <1>13, <1>14, <1>15, <1>16, <1>17, <1>18 DEF JavaNext

LEMMA PlacedStep ==
  ASSUME JavaTypeOK, Placed, [JavaNext]_jvars
  PROVE  Placed'
<1> USE JavaAssumption DEF JavaTypeOK, Placed, WriterInside, ReaderInside, Threads, disk,
        statics, locals, history
<1>1. ASSUME NEW t \in Writers, NEW k \in Keys, NEW v \in Vals, BeginWrite(t, k, v)
      PROVE  Placed'
  BY <1>1 DEF BeginWrite, Step
<1>2. ASSUME NEW t \in Readers, NEW k \in Keys, BeginRead(t, k)
      PROVE  Placed'
  BY <1>2 DEF BeginRead, Step
<1>3. ASSUME NEW t \in Threads, Check(t)
      PROVE  Placed'
  BY SMTT(30), <1>3 DEF Check, Step
<1>4. ASSUME NEW t \in Threads, Create(t)
      PROVE  Placed'
  BY <1>4 DEF Create, Step
<1>5. ASSUME NEW t \in Threads, ReturnFile(t)
      PROVE  Placed'
  BY <1>5 DEF ReturnFile, Step
<1>6. ASSUME NEW t \in Threads, Enter(t)
      PROVE  Placed'
  BY SMTT(30), <1>6 DEF Enter, Step
<1>7. ASSUME NEW t \in Threads, SeekValue(t)
      PROVE  Placed'
  BY <1>7 DEF SeekValue, Step
<1>8. ASSUME NEW t \in Threads, WriteValue(t)
      PROVE  Placed'
  BY <1>8 DEF WriteValue, Step
<1>9. ASSUME NEW t \in Threads, WriteKey(t)
      PROVE  Placed'
  BY <1>9 DEF WriteKey, Step
<1>10. ASSUME NEW t \in Threads, WritePosition(t)
       PROVE  Placed'
  BY <1>10 DEF WritePosition, Step
<1>11. ASSUME NEW t \in Threads, Put(t)
       PROVE  Placed'
  BY <1>11 DEF Put, Step, Forget
<1>12. ASSUME NEW t \in Threads, Get(t)
       PROVE  Placed'
  BY <1>12 DEF Get, Step
<1>13. ASSUME NEW t \in Threads, SeekRead(t)
       PROVE  Placed'
  BY <1>13 DEF SeekRead, Step
<1>14. ASSUME NEW t \in Threads, ReadValue(t)
       PROVE  Placed'
  BY <1>14 DEF ReadValue, Step
<1>15. ASSUME NEW t \in Threads, ReadReturns(t)
       PROVE  Placed'
  BY <1>15 DEF ReadReturns, Step, Forget
<1>16. CASE KillAndOpen
  BY <1>16 DEF KillAndOpen, ForAll
<1>17. CASE Close \/ OpenAgain
  BY <1>17 DEF Close, OpenAgain
<1>18. CASE UNCHANGED jvars
  BY <1>18 DEF jvars
<1> QED
  BY <1>1, <1>2, <1>3, <1>4, <1>5, <1>6, <1>7, <1>8, <1>9,
     <1>10, <1>11, <1>12, <1>13, <1>14, <1>15, <1>16, <1>17, <1>18 DEF JavaNext


-----------------------------------------------------------------------------
(* What a step leaves alone.                                               *)

Kept(u) ==
  /\ key'[u] = key[u] /\ val'[u] = val[u] /\ mine'[u] = mine[u] /\ at'[u] = at[u]
  /\ got'[u] = got[u] /\ expect'[u] = expect[u]

\* A thread that does not move keeps its locals.
LEMMA KeptStep ==
  ASSUME JavaTypeOK, [JavaNext]_jvars, NEW u \in Threads, pc[u] # "idle", pc'[u] = pc[u]
  PROVE  Kept(u)
<1> USE DEF JavaTypeOK, Kept, Threads, disk, statics, locals, history
<1>1. ASSUME NEW t \in Writers, NEW k \in Keys, NEW v \in Vals, BeginWrite(t, k, v)
      PROVE  Kept(u)
  BY <1>1 DEF BeginWrite, Step
<1>2. ASSUME NEW t \in Readers, NEW k \in Keys, BeginRead(t, k)
      PROVE  Kept(u)
  BY <1>2 DEF BeginRead, Step
<1>3. ASSUME NEW t \in Threads, Check(t)
      PROVE  Kept(u)
  BY <1>3 DEF Check, Step
<1>4. ASSUME NEW t \in Threads, Create(t)
      PROVE  Kept(u)
  BY <1>4 DEF Create, Step
<1>5. ASSUME NEW t \in Threads, ReturnFile(t)
      PROVE  Kept(u)
  BY <1>5 DEF ReturnFile, Step
<1>6. ASSUME NEW t \in Threads, Enter(t)
      PROVE  Kept(u)
  BY <1>6 DEF Enter, Step
<1>7. ASSUME NEW t \in Threads, SeekValue(t)
      PROVE  Kept(u)
  BY <1>7 DEF SeekValue, Step
<1>8. ASSUME NEW t \in Threads, WriteValue(t)
      PROVE  Kept(u)
  BY <1>8 DEF WriteValue, Step
<1>9. ASSUME NEW t \in Threads, WriteKey(t)
      PROVE  Kept(u)
  BY <1>9 DEF WriteKey, Step
<1>10. ASSUME NEW t \in Threads, WritePosition(t)
       PROVE  Kept(u)
  BY <1>10 DEF WritePosition, Step
<1>11. ASSUME NEW t \in Threads, Put(t)
       PROVE  Kept(u)
  BY <1>11 DEF Put, Step, Forget
<1>12. ASSUME NEW t \in Threads, Get(t)
       PROVE  Kept(u)
  BY <1>12 DEF Get, Step
<1>13. ASSUME NEW t \in Threads, SeekRead(t)
       PROVE  Kept(u)
  BY <1>13 DEF SeekRead, Step
<1>14. ASSUME NEW t \in Threads, ReadValue(t)
       PROVE  Kept(u)
  BY <1>14 DEF ReadValue, Step
<1>15. ASSUME NEW t \in Threads, ReadReturns(t)
       PROVE  Kept(u)
  BY <1>15 DEF ReadReturns, Step, Forget
<1>16. CASE KillAndOpen
  BY <1>16 DEF KillAndOpen, ForAll
<1>17. CASE Close \/ OpenAgain
  BY <1>17 DEF Close, OpenAgain
<1>18. CASE UNCHANGED jvars
  BY <1>18 DEF jvars
<1> QED
  BY <1>1, <1>2, <1>3, <1>4, <1>5, <1>6, <1>7, <1>8, <1>9,
     <1>10, <1>11, <1>12, <1>13, <1>14, <1>15, <1>16, <1>17, <1>18 DEF JavaNext

\* What the owner of the monitor relies on: the rest of value.db, the last
\* values, and the position of its handle.
Guarded(u) ==
  /\ values' = values /\ stored' = stored /\ words' = words
  /\ mine[u] \in DOMAIN seek => seek'[mine[u]] = seek[mine[u]]

LEMMA NotInside ==
  ASSUME JavaTypeOK, Placed, Monitored, NEW u \in Threads, Inside(u), pc'[u] = pc[u],
         NEW t \in Threads, pc'[t] # pc[t],
         pc[t] \in WriterInside \union {"seek_read", "read_value"}
  PROVE  FALSE
<1>1. t # u /\ monitor = u
  BY DEF Monitored
<1>2. Inside(t)
  BY JavaAssumption DEF Placed, Inside, WriterInside, ReaderInside, Threads
<1> QED BY <1>1, <1>2 DEF Monitored

LEMMA GuardedStep ==
  ASSUME JavaTypeOK, Placed, Monitored, [JavaNext]_jvars, NEW u \in Threads, Inside(u), pc'[u] = pc[u]
  PROVE  Guarded(u)
<1> USE JavaAssumption DEF JavaTypeOK, Guarded, Threads, disk, statics, locals, history, Monitored, Inside,
        WriterInside, ReaderInside
<1>1. ASSUME NEW t \in Writers, NEW k \in Keys, NEW v \in Vals, BeginWrite(t, k, v)
      PROVE  Guarded(u)
  BY <1>1 DEF BeginWrite, Step
<1>2. ASSUME NEW t \in Readers, NEW k \in Keys, BeginRead(t, k)
      PROVE  Guarded(u)
  BY <1>2 DEF BeginRead, Step
<1>3. ASSUME NEW t \in Threads, Check(t)
      PROVE  Guarded(u)
  BY <1>3 DEF Check, Step
<1>4. ASSUME NEW t \in Threads, Create(t)
      PROVE  Guarded(u)
  BY <1>4 DEF Create, Step
<1>5. ASSUME NEW t \in Threads, ReturnFile(t)
      PROVE  Guarded(u)
  BY <1>5 DEF ReturnFile, Step
<1>6. ASSUME NEW t \in Threads, Enter(t)
      PROVE  Guarded(u)
  BY <1>6 DEF Enter, Step
<1>7. ASSUME NEW t \in Threads, SeekValue(t)
      PROVE  Guarded(u)
  <2>1. pc[t] = "seek_value" /\ pc'[t] = "write_value"
    BY <1>7 DEF SeekValue, Step
  <2> QED BY <2>1, NotInside
<1>8. ASSUME NEW t \in Threads, WriteValue(t)
      PROVE  Guarded(u)
  <2>1. pc[t] = "write_value" /\ pc'[t] = "write_key"
    BY <1>8 DEF WriteValue, Step
  <2> QED BY <2>1, NotInside
<1>9. ASSUME NEW t \in Threads, WriteKey(t)
      PROVE  Guarded(u)
  <2>1. pc[t] = "write_key" /\ pc'[t] = "write_position"
    BY <1>9 DEF WriteKey, Step
  <2> QED BY <2>1, NotInside
<1>10. ASSUME NEW t \in Threads, WritePosition(t)
       PROVE  Guarded(u)
  <2>1. pc[t] = "write_position" /\ pc'[t] = "put"
    BY <1>10 DEF WritePosition, Step
  <2> QED BY <2>1, NotInside
<1>11. ASSUME NEW t \in Threads, Put(t)
       PROVE  Guarded(u)
  BY <1>11 DEF Put, Step
<1>12. ASSUME NEW t \in Threads, Get(t)
       PROVE  Guarded(u)
  BY <1>12 DEF Get, Step
<1>13. ASSUME NEW t \in Threads, SeekRead(t)
       PROVE  Guarded(u)
  <2>1. pc[t] = "seek_read" /\ pc'[t] = "read_value"
    BY <1>13 DEF SeekRead, Step
  <2> QED BY <2>1, NotInside
<1>14. ASSUME NEW t \in Threads, ReadValue(t)
       PROVE  Guarded(u)
  <2>1. pc[t] = "read_value" /\ pc'[t] = "read_end"
    BY <1>14 DEF ReadValue, Step
  <2> QED BY <2>1, NotInside
<1>15. ASSUME NEW t \in Threads, ReadReturns(t)
       PROVE  Guarded(u)
  BY <1>15 DEF ReadReturns, Step
<1>16. CASE KillAndOpen
  BY <1>16 DEF KillAndOpen, ForAll
<1>17. CASE Close \/ OpenAgain
  BY <1>17 DEF Close, OpenAgain
<1>18. CASE UNCHANGED jvars
  BY <1>18 DEF jvars
<1> QED
  BY <1>1, <1>2, <1>3, <1>4, <1>5, <1>6, <1>7, <1>8, <1>9,
     <1>10, <1>11, <1>12, <1>13, <1>14, <1>15, <1>16, <1>17, <1>18 DEF JavaNext


\* A value in value.db stays where it is.
LEMMA LiesKept ==
  ASSUME JavaTypeOK, Placed, WriterKnows, [JavaNext]_jvars
  PROVE  \A p, v : Lies(values, p, v) => Lies(values', p, v)
<1>1. ASSUME NEW t \in Threads, WriteValue(t)
      PROVE  \E w \in Vals : values' = Append(values, w)
  <2>1. t \in Writers /\ val[t] \in Vals /\ seek[mine[t]] = Len(values)
    BY <1>1 DEF WriteValue, Step, WriterInside, Placed, WriterKnows, Threads
  <2> QED BY <1>1, <2>1 DEF WriteValue
<1>2. values' = values \/ \E w \in Vals : values' = Append(values, w)
  BY <1>1 DEF JavaNext, jvars, disk, BeginWrite, BeginRead, Check, Create, ReturnFile, Enter,
     SeekValue, WriteKey, WritePosition, Put, Get, SeekRead, ReadValue, ReadReturns,
     KillAndOpen, Close, OpenAgain
<1> QED BY <1>2, LiesAppend DEF JavaTypeOK

\* Only a thread itself, or a kill, moves it.
LEMMA OwnStep ==
  ASSUME JavaTypeOK, [JavaNext]_jvars, NEW u \in Threads, pc'[u] # pc[u], pc'[u] # "idle"
  PROVE  \/ u \in Writers /\ \E k \in Keys, v \in Vals : BeginWrite(u, k, v)
         \/ u \in Readers /\ \E k \in Keys : BeginRead(u, k)
         \/ Check(u) \/ Create(u) \/ ReturnFile(u) \/ Enter(u)
         \/ SeekValue(u) \/ WriteValue(u) \/ WriteKey(u) \/ WritePosition(u) \/ Put(u)
         \/ Get(u) \/ SeekRead(u) \/ ReadValue(u) \/ ReadReturns(u)
<1> DEFINE Own == \/ u \in Writers /\ \E k \in Keys, v \in Vals : BeginWrite(u, k, v)
                  \/ u \in Readers /\ \E k \in Keys : BeginRead(u, k)
                  \/ Check(u) \/ Create(u) \/ ReturnFile(u) \/ Enter(u)
                  \/ SeekValue(u) \/ WriteValue(u) \/ WriteKey(u) \/ WritePosition(u) \/ Put(u)
                  \/ Get(u) \/ SeekRead(u) \/ ReadValue(u) \/ ReadReturns(u)
<1>1. ASSUME NEW t \in Writers, NEW k \in Keys, NEW v \in Vals, BeginWrite(t, k, v)
      PROVE  Own
  <2>1. t = u
    BY <1>1 DEF BeginWrite, Step, JavaTypeOK, Threads
  <2> QED BY <1>1, <2>1
<1>2. ASSUME NEW t \in Readers, NEW k \in Keys, BeginRead(t, k)
      PROVE  Own
  <2>1. t = u
    BY <1>2 DEF BeginRead, Step, JavaTypeOK, Threads
  <2> QED BY <1>2, <2>1
<1>3. ASSUME NEW t \in Threads, Check(t)
      PROVE  Own
  <2>1. t = u
    BY <1>3 DEF Check, Step, JavaTypeOK, Threads
  <2> QED BY <1>3, <2>1
<1>4. ASSUME NEW t \in Threads, Create(t)
      PROVE  Own
  <2>1. t = u
    BY <1>4 DEF Create, Step, JavaTypeOK, Threads
  <2> QED BY <1>4, <2>1
<1>5. ASSUME NEW t \in Threads, ReturnFile(t)
      PROVE  Own
  <2>1. t = u
    BY <1>5 DEF ReturnFile, Step, JavaTypeOK, Threads
  <2> QED BY <1>5, <2>1
<1>6. ASSUME NEW t \in Threads, Enter(t)
      PROVE  Own
  <2>1. t = u
    BY <1>6 DEF Enter, Step, JavaTypeOK, Threads
  <2> QED BY <1>6, <2>1
<1>7. ASSUME NEW t \in Threads, SeekValue(t)
      PROVE  Own
  <2>1. t = u
    BY <1>7 DEF SeekValue, Step, JavaTypeOK, Threads
  <2> QED BY <1>7, <2>1
<1>8. ASSUME NEW t \in Threads, WriteValue(t)
      PROVE  Own
  <2>1. t = u
    BY <1>8 DEF WriteValue, Step, JavaTypeOK, Threads
  <2> QED BY <1>8, <2>1
<1>9. ASSUME NEW t \in Threads, WriteKey(t)
      PROVE  Own
  <2>1. t = u
    BY <1>9 DEF WriteKey, Step, JavaTypeOK, Threads
  <2> QED BY <1>9, <2>1
<1>10. ASSUME NEW t \in Threads, WritePosition(t)
       PROVE  Own
  <2>1. t = u
    BY <1>10 DEF WritePosition, Step, JavaTypeOK, Threads
  <2> QED BY <1>10, <2>1
<1>11. ASSUME NEW t \in Threads, Put(t)
       PROVE  Own
  <2>1. t = u
    BY <1>11 DEF Put, Step, JavaTypeOK, Threads
  <2> QED BY <1>11, <2>1
<1>12. ASSUME NEW t \in Threads, Get(t)
       PROVE  Own
  <2>1. t = u
    BY <1>12 DEF Get, Step, JavaTypeOK, Threads
  <2> QED BY <1>12, <2>1
<1>13. ASSUME NEW t \in Threads, SeekRead(t)
       PROVE  Own
  <2>1. t = u
    BY <1>13 DEF SeekRead, Step, JavaTypeOK, Threads
  <2> QED BY <1>13, <2>1
<1>14. ASSUME NEW t \in Threads, ReadValue(t)
       PROVE  Own
  <2>1. t = u
    BY <1>14 DEF ReadValue, Step, JavaTypeOK, Threads
  <2> QED BY <1>14, <2>1
<1>15. ASSUME NEW t \in Threads, ReadReturns(t)
       PROVE  Own
  <2>1. t = u
    BY <1>15 DEF ReadReturns, Step, JavaTypeOK, Threads
  <2> QED BY <1>15, <2>1
<1>16. ~ (KillAndOpen \/ Close \/ OpenAgain \/ UNCHANGED jvars)
  BY DEF KillAndOpen, Close, OpenAgain, jvars, ForAll
<1> QED
  BY <1>1, <1>2, <1>3, <1>4, <1>5, <1>6, <1>7, <1>8, <1>9, <1>10, <1>11, <1>12, <1>13, <1>14,
     <1>15, <1>16 DEF JavaNext

-----------------------------------------------------------------------------
(* What writers and readers know between two of their steps.               *)

LEMMA WriterKnowsStep ==
  ASSUME JavaTypeOK, Placed, Monitored, WriterKnows, [JavaNext]_jvars
  PROVE  WriterKnows'
<1> SUFFICES ASSUME NEW t \in Writers
             PROVE  /\ pc'[t] = "write_value" =>
                         at'[t] = Position(Len(values')) /\ seek'[mine'[t]] = Len(values')
                    /\ pc'[t] \in {"write_key", "write_position", "put"} => Lies(values', at'[t], val'[t])
                    /\ pc'[t] = "put" => stored'[key'[t]] = val'[t]
  BY DEF WriterKnows
<1> USE DEF JavaTypeOK, WriterInside, Threads, disk, statics, locals, history
<1>1. CASE pc'[t] \notin {"write_value", "write_key", "write_position", "put"}
  BY <1>1
<1>2. CASE pc'[t] = pc[t] /\ pc[t] \in {"write_value", "write_key", "write_position", "put"}
  <2>1. Inside(t)
    BY <1>2 DEF Inside
  <2>2. Kept(t) /\ Guarded(t)
    BY <1>2, <2>1, KeptStep, GuardedStep
  <2>3. mine[t] \in DOMAIN seek
    BY <1>2 DEF Placed
  <2> QED BY <1>2, <2>2, <2>3 DEF Kept, Guarded, WriterKnows
<1>3. CASE pc'[t] # pc[t] /\ pc'[t] \in {"write_value", "write_key", "write_position", "put"}
  <2>1. SeekValue(t) \/ WriteValue(t) \/ WriteKey(t) \/ WritePosition(t)
    BY ZenonT(60), <1>3, OwnStep DEF BeginWrite, BeginRead, Check, Create, ReturnFile, Enter, Put, Get,
       SeekRead, ReadValue, ReadReturns, Step
  <2>2. CASE SeekValue(t)
    <3>1. mine[t] \in DOMAIN seek
      BY <2>2 DEF SeekValue, Step, Placed
    <3> QED BY <2>2, <3>1 DEF SeekValue, Step
  <2>3. CASE WriteValue(t)
    <3>1. val[t] \in Vals /\ at[t] = Position(Len(values)) /\ seek[mine[t]] = Len(values)
      BY <2>3 DEF WriteValue, Step, Placed, WriterKnows
    <3>2. values' = Append(values, val[t]) /\ at' = at /\ val' = val /\ pc'[t] = "write_key"
      BY <2>3, <3>1 DEF WriteValue, Step
    <3>3. Lies(values', at'[t], val'[t])
      BY <3>1, <3>2, LiesAppend
    <3> QED BY <3>2, <3>3
  <2>4. CASE WriteKey(t)
    BY <2>4 DEF WriteKey, Step, WriterKnows
  <2>5. CASE WritePosition(t)
    <3>1. key[t] \in Keys
      BY <2>5 DEF WritePosition, Step, Placed
    <3>2. Lies(values', at'[t], val'[t])
      BY <2>5 DEF WritePosition, Step, WriterKnows
    <3>3. stored'[key'[t]] = val'[t]
      BY <2>5, <3>1 DEF WritePosition
    <3> QED BY <3>2, <3>3, <2>5 DEF WritePosition, Step
  <2> QED BY <2>1, <2>2, <2>3, <2>4, <2>5
<1> QED BY <1>1, <1>2, <1>3

\* Inside the look-up, what is in the map is at its place.
LEMMA LookupRight ==
  ASSUME JavaTypeOK, AckedReadable, NEW t \in Readers, Get(t), key[t] \in Keys,
         expect'[t] # Unknown
  PROVE  /\ pc'[t] = "read_end" => expect'[t] = got'[t]
         /\ pc'[t] = "enter" => Lies(values, at'[t], expect'[t])
<1> DEFINE k == key[t]
<1>1. PICK p \in Lookups(k) :
        /\ Step(t, "get", IF p = NoValue THEN "read_end" ELSE "enter")
        /\ at' = [at EXCEPT ![t] = IF p = NoValue THEN 0 ELSE p]
        /\ got' = [got EXCEPT ![t] = NoValue]
        /\ expect' = [expect EXCEPT ![t] =
             IF k \in risk \/ \E u \in Threads : pc[u] = "put" THEN Unknown ELSE stored[k]]
  BY DEF Get
<1>2. k \notin risk /\ ~ (\E u \in Threads : pc[u] = "put") /\ expect'[t] = stored[k]
  BY <1>1 DEF JavaTypeOK, Threads
<1>3. p = IF k \in DOMAIN tree THEN tree[k] ELSE NoValue
  BY <1>1, <1>2 DEF Lookups
<1>4. k \in Keys \ risk /\ up = "open" /\ ~InFlight(k)
  BY <1>1, <1>2 DEF InFlight, Step
<1>5. CASE stored[k] = NoValue
  <2>1. p = NoValue
    BY <1>3, <1>4, <1>5 DEF AckedReadable
  <2> QED BY <1>1, <1>2, <1>5, <2>1 DEF Step, JavaTypeOK, Threads
<1>6. CASE stored[k] # NoValue
  <2>1. k \in DOMAIN tree /\ Lies(values, tree[k], stored[k])
    BY <1>4, <1>6, LiesValue DEF AckedReadable, JavaTypeOK
  <2>2. tree[k] \in Nat /\ tree[k] # NoValue
    <3>1. PICK i \in DOMAIN values : tree[k] = Position(i - 1)
      BY <2>1 DEF Lies
    <3>2. i - 1 \in Nat
      BY <3>1 DEF JavaTypeOK
    <3> QED BY <3>1, <3>2, DivPosition, JavaAssumption
  <2>3. at'[t] = tree[k] /\ pc'[t] = "enter"
    BY <1>1, <1>3, <2>1, <2>2 DEF Step, JavaTypeOK, Threads
  <2> QED BY <1>2, <2>1, <2>3
<1> QED BY <1>5, <1>6

LEMMA ReaderKnowsStep ==
  ASSUME JavaInv, [JavaNext]_jvars
  PROVE  ReaderKnows' /\ ReadExact'
<1> SUFFICES ASSUME NEW t \in Readers
             PROVE  /\ pc'[t] \in {"enter"} \union ReaderInside /\ expect'[t] # Unknown =>
                         Lies(values', at'[t], expect'[t])
                    /\ pc'[t] = "read_value" => seek'[mine'[t]] = at'[t] \div ValueSize
                    /\ pc'[t] = "read_end" /\ expect'[t] # Unknown => got'[t] = expect'[t]
  BY DEF ReaderKnows, ReadExact
<1> USE DEF JavaTypeOK, ReaderInside, Threads, disk, statics, locals, history
<1>1. JavaTypeOK /\ Placed /\ Monitored /\ WriterKnows /\ ReaderKnows /\ ReadExact /\ AckedReadable
  BY DEF JavaInv
<1>2. \A p, v : Lies(values, p, v) => Lies(values', p, v)
  BY <1>1, LiesKept
<1>3. CASE pc'[t] \notin {"enter", "read_end"} \union ReaderInside
  BY <1>3
<1>4. CASE pc'[t] = pc[t] /\ pc[t] \in {"enter", "read_end"} \union ReaderInside
  <2>1. Kept(t)
    BY <1>1, <1>4, KeptStep
  <2>2. CASE pc[t] = "read_value"
    <3>1. Inside(t)
      BY <2>2, JavaAssumption DEF Inside
    <3>2. Guarded(t) /\ mine[t] \in DOMAIN seek
      BY <1>1, <1>4, <2>2, <3>1, GuardedStep DEF Placed
    <3> QED BY <1>1, <1>2, <1>4, <2>1, <2>2, <3>2 DEF Kept, Guarded, ReaderKnows
  <2>3. CASE pc[t] # "read_value"
    BY <1>1, <1>2, <1>4, <2>1, <2>3 DEF Kept, ReaderKnows, ReadExact
  <2> QED BY <2>2, <2>3
<1>5. CASE pc'[t] # pc[t] /\ pc'[t] \in {"enter", "read_end"} \union ReaderInside
  <2>1. \/ Check(t) \/ Create(t) \/ ReturnFile(t) \/ Enter(t)
        \/ Get(t) \/ SeekRead(t) \/ ReadValue(t)
    <3>1. t \notin Writers /\ pc[t] \notin WriterInside
      BY <1>1, JavaAssumption DEF Placed
    <3>2. ~ (SeekValue(t) \/ WriteValue(t) \/ WriteKey(t) \/ WritePosition(t) \/ Put(t))
      BY <3>1 DEF SeekValue, WriteValue, WriteKey, WritePosition, Put, Step, WriterInside
    <3>3. ~ (ReadReturns(t) \/ \E k \in Keys : BeginRead(t, k))
      BY <1>1, <1>5 DEF ReadReturns, BeginRead, Step
    <3>4. t \in Threads /\ pc'[t] # "idle"
      BY <1>5
    <3> HIDE DEF JavaTypeOK
    <3> QED BY <1>1, <1>5, <3>1, <3>2, <3>3, <3>4, OwnStep
  <2>2. CASE Check(t) \/ Create(t) \/ ReturnFile(t) \/ Enter(t)
    <3>1. pc[t] \in {"enter"} \union ReaderInside /\ pc'[t] \notin {"read_value", "read_end"}
      BY <1>1, <2>2, JavaAssumption DEF Check, Create, ReturnFile, Enter, Step
    <3>2. at' = at /\ expect' = expect
      BY <2>2 DEF Check, Create, ReturnFile, Enter
    <3> QED BY <1>1, <1>2, <3>1, <3>2 DEF ReaderKnows
  <2>3. CASE Get(t)
    <3>1. key[t] \in Keys /\ pc'[t] \in {"enter", "read_end"}
      BY <1>1, <2>3 DEF Get, Step, Placed
    <3> QED BY <1>1, <1>2, <2>3, <3>1, LookupRight
  <2>4. CASE SeekRead(t)
    <3>1. mine[t] \in DOMAIN seek /\ pc[t] = "seek_read" /\ pc'[t] = "read_value"
      BY <1>1, <2>4 DEF SeekRead, Step, Placed
    <3>2. seek'[mine'[t]] = at'[t] \div ValueSize /\ at' = at /\ expect' = expect
      BY <1>1, <2>4, <3>1 DEF SeekRead
    <3> QED BY <1>1, <1>2, <3>1, <3>2 DEF ReaderKnows
  <2>5. CASE ReadValue(t)
    <3>1. pc[t] = "read_value" /\ pc'[t] = "read_end" /\ expect' = expect
      BY <1>1, <2>5 DEF ReadValue, Step
    <3>2. ASSUME expect[t] # Unknown PROVE got'[t] = expect[t]
      <4>1. Lies(values, at[t], expect[t]) /\ seek[mine[t]] = at[t] \div ValueSize
        BY <1>1, <3>1, <3>2 DEF ReaderKnows
      <4>2. PICK i \in DOMAIN values : at[t] = Position(i - 1) /\ values[i] = expect[t]
        BY <4>1 DEF Lies
      <4>3. i - 1 \in Nat /\ i <= Len(values)
        BY <1>1, <4>2
      <4>4. seek[mine[t]] = i - 1
        BY <4>1, <4>2, <4>3, DivPosition
      <4> QED BY <1>1, <2>5, <4>2, <4>3, <4>4 DEF ReadValue
    <3> QED BY <3>1, <3>2
  <2> QED BY <2>1, <2>2, <2>3, <2>4, <2>5
<1> QED BY <1>3, <1>4, <1>5

-----------------------------------------------------------------------------
(* key.db.                                                                 *)

LEMMA Parity ==
  ASSUME NEW n \in Nat
  PROVE  n % 2 = 1 <=> (n + 1) % 2 # 1
OBVIOUS

\* Only two of the steps, and a kill, touch key.db or what is said of it.
KeyFileSame ==
  /\ words' = words /\ stored' = stored /\ risk' = risk
  /\ \A u \in Threads :
       /\ pc'[u] = "write_position" <=> pc[u] = "write_position"
       /\ pc[u] = "write_position" => key'[u] = key[u]

LEMMA KeyFileSameStep ==
  ASSUME JavaTypeOK, Placed, [JavaNext]_jvars, ~KillAndOpen,
         \A t \in Threads : ~WriteKey(t) /\ ~WritePosition(t)
  PROVE  KeyFileSame
<1> USE DEF JavaTypeOK, KeyFileSame, Threads, disk, statics, locals, history
<1>1. ASSUME NEW t \in Writers, NEW k \in Keys, NEW v \in Vals, BeginWrite(t, k, v)
      PROVE  KeyFileSame
  BY <1>1 DEF BeginWrite, Step
<1>2. ASSUME NEW t \in Readers, NEW k \in Keys, BeginRead(t, k)
      PROVE  KeyFileSame
  BY <1>2 DEF BeginRead, Step
<1>3. ASSUME NEW t \in Threads, Check(t)
      PROVE  KeyFileSame
  BY <1>3 DEF Check, Step
<1>4. ASSUME NEW t \in Threads, Create(t)
      PROVE  KeyFileSame
  BY <1>4 DEF Create, Step
<1>5. ASSUME NEW t \in Threads, ReturnFile(t)
      PROVE  KeyFileSame
  BY <1>5 DEF ReturnFile, Step
<1>6. ASSUME NEW t \in Threads, Enter(t)
      PROVE  KeyFileSame
  BY <1>6 DEF Enter, Step
<1>7. ASSUME NEW t \in Threads, SeekValue(t)
      PROVE  KeyFileSame
  BY <1>7 DEF SeekValue, Step
<1>8. ASSUME NEW t \in Threads, WriteValue(t)
      PROVE  KeyFileSame
  BY <1>8 DEF WriteValue, Step
<1>9. ASSUME NEW t \in Threads, WriteKey(t)
      PROVE  KeyFileSame
  BY <1>9
<1>10. ASSUME NEW t \in Threads, WritePosition(t)
       PROVE  KeyFileSame
  BY <1>10
<1>11. ASSUME NEW t \in Threads, Put(t)
       PROVE  KeyFileSame
  BY <1>11 DEF Put, Step, Forget
<1>12. ASSUME NEW t \in Threads, Get(t)
       PROVE  KeyFileSame
  BY <1>12 DEF Get, Step
<1>13. ASSUME NEW t \in Threads, SeekRead(t)
       PROVE  KeyFileSame
  BY <1>13 DEF SeekRead, Step
<1>14. ASSUME NEW t \in Threads, ReadValue(t)
       PROVE  KeyFileSame
  BY <1>14 DEF ReadValue, Step
<1>15. ASSUME NEW t \in Threads, ReadReturns(t)
       PROVE  KeyFileSame
  BY <1>15 DEF ReadReturns, Step, Forget
<1>16. CASE KillAndOpen
  BY <1>16
<1>17. CASE Close \/ OpenAgain
  BY <1>17 DEF Close, OpenAgain
<1>18. CASE UNCHANGED jvars
  BY <1>18 DEF jvars
<1> QED
  BY <1>1, <1>2, <1>3, <1>4, <1>5, <1>6, <1>7, <1>8, <1>9,
     <1>10, <1>11, <1>12, <1>13, <1>14, <1>15, <1>16, <1>17, <1>18 DEF JavaNext

\* Nobody else is inside.
LEMMA OnlyOne ==
  ASSUME Placed, Monitored, NEW t \in Threads, NEW u \in Threads,
         pc[t] \in WriterInside, pc[u] \in WriterInside
  PROVE  t = u
<1>1. Inside(t) /\ Inside(u)
  BY DEF Placed, Inside, Threads
<1> QED BY <1>1 DEF Monitored

LEMMA WriteKeyKeeps ==
  ASSUME JavaInv, NEW t \in Threads, WriteKey(t)
  PROVE  KeyFileRight'
<1>1. JavaTypeOK /\ Placed /\ Monitored /\ KeyFileRight
  BY DEF JavaInv
<1>2. /\ words' = Append(words, key[t]) /\ values' = values /\ stored' = stored /\ risk' = risk
      /\ key' = key /\ pc[t] = "write_key" /\ pc'[t] = "write_position" /\ key[t] \in Keys
      /\ \A u \in Threads : u # t => pc'[u] = pc[u]
  BY <1>1 DEF WriteKey, Step, disk, statics, locals, history, JavaTypeOK, Placed
<1>3. \A u \in Threads : pc[u] # "write_position"
  BY <1>1, <1>2, OnlyOne DEF WriterInside
<1>4. /\ Len(words) \in Nat /\ Len(words') = Len(words) + 1
      /\ words'[Len(words) + 1] = key[t]
      /\ \A i \in 1 .. Len(words) : words'[i] = words[i]
  BY <1>1, <1>2, JavaAssumption DEF JavaTypeOK
<1>5. ASSUME NEW k \in Keys \ risk', ~Adding(k)'
      PROVE  \/ stored'[k] = NoValue /\ \A i \in Entries(words') : words'[i] # k
             \/ \E i \in 1 .. Len(words') - 1 :
                  LastEntry(words', k, i) /\ Lies(values', words'[i + 1], stored'[k])
  <2>1. k # key[t] /\ k \notin risk /\ ~Adding(k)
    BY <1>2, <1>3, <1>5 DEF Adding
  <2>2. \A i \in Entries(words') : words'[i] = k => i \in Entries(words) /\ words[i] = k
    BY <1>1, <1>2, <1>4, <2>1 DEF Entries, JavaTypeOK
  <2>3. CASE stored[k] = NoValue /\ \A i \in Entries(words) : words[i] # k
    BY <1>2, <2>2, <2>3
  <2>4. ASSUME NEW i \in 1 .. Len(words) - 1, LastEntry(words, k, i),
               Lies(values, words[i + 1], stored[k])
        PROVE  LastEntry(words', k, i) /\ Lies(values', words'[i + 1], stored'[k])
    <3>1. words'[i] = words[i] /\ words'[i + 1] = words[i + 1] /\ i \in DOMAIN words'
      BY <1>1, <1>2, <1>4, <2>4
    <3>2. LastEntry(words', k, i)
      BY <2>2, <2>4, <3>1 DEF LastEntry, Entries
    <3> QED BY <1>2, <2>4, <3>1, <3>2
  <2>5. Len(words') - 1 = Len(words) /\ 1 .. Len(words) - 1 \subseteq 1 .. Len(words)
    BY <1>4
  <2> QED BY <1>1, <2>1, <2>3, <2>4, <2>5 DEF KeyFileRight
<1>6. ASSUME NEW u \in Threads, pc'[u] = "write_position"
      PROVE  words'[Len(words')] = key'[u]
  BY <1>2, <1>3, <1>4, <1>6
<1> QED BY <1>5, <1>6 DEF KeyFileRight

LEMMA WritePositionKeeps ==
  ASSUME JavaInv, NEW t \in Threads, WritePosition(t)
  PROVE  KeyFileRight'
<1>1. JavaTypeOK /\ Placed /\ Monitored /\ KeyFileRight /\ WriterKnows
  BY DEF JavaInv
<1>2. /\ words' = Append(words, at[t]) /\ values' = values
      /\ stored' = [stored EXCEPT ![key[t]] = val[t]]
      /\ risk' = IF Torn' THEN risk \union {key[t], at[t]} ELSE risk
      /\ pc[t] = "write_position" /\ pc'[t] = "put" /\ key[t] \in Keys /\ t \in Writers
      /\ \A u \in Threads : u # t => pc'[u] = pc[u]
  BY <1>1 DEF WritePosition, Step, disk, statics, locals, history, JavaTypeOK, Placed, Threads,
     WriterInside
<1>3. \A u \in Threads : pc[u] = "write_position" => u = t
  BY <1>1, <1>2, OnlyOne DEF WriterInside
<1>4. /\ Len(words) \in Nat /\ Len(words') = Len(words) + 1
      /\ words'[Len(words) + 1] = at[t]
      /\ \A i \in 1 .. Len(words) : words'[i] = words[i]
      /\ DOMAIN words = 1 .. Len(words) /\ DOMAIN words' = 1 .. Len(words) + 1
  <2>1. at[t] \in Nat
    BY <1>1 DEF JavaTypeOK
  <2> QED BY <1>1, <1>2, <2>1 DEF JavaTypeOK
<1>5. Torn' <=> ~Torn
  BY <1>4, Parity DEF Torn
<1>6. Lies(values, at[t], val[t])
  BY <1>1, <1>2 DEF WriterKnows
<1>7. ASSUME NEW k \in Keys \ risk'
      PROVE  \/ stored'[k] = NoValue /\ \A i \in Entries(words') : words'[i] # k
             \/ \E i \in 1 .. Len(words') - 1 :
                  LastEntry(words', k, i) /\ Lies(values', words'[i + 1], stored'[k])
  <2>1. CASE k = key[t]
    <3> DEFINE n == Len(words)
    <3>1. Torn /\ n % 2 = 1 /\ n \in 1 .. n
      <4>1. Torn
        BY <1>2, <1>5, <1>7, <2>1
      <4>2. n # 0
        BY <4>1 DEF Torn
      <4> QED BY <1>4, <4>1, <4>2 DEF Torn
    <3>2. words[n] = k
      BY <1>1, <1>2, <2>1, <3>1 DEF KeyFileRight
    <3>3. words'[n] = k /\ words'[n + 1] = at[t] /\ n \in Entries(words')
      BY <1>4, <3>1, <3>2 DEF Entries
    <3>4. \A j \in Entries(words') : j <= n
      <4>1. n + 1 \notin Entries(words')
        BY <1>4, <3>1, Parity DEF Entries
      <4> QED BY <1>4, <4>1 DEF Entries
    <3>5. stored'[k] = val[t]
      BY <1>1, <1>2, <2>1 DEF JavaTypeOK
    <3>6. n \in 1 .. Len(words') - 1
      BY <1>4, <3>1
    <3> QED BY <1>2, <1>6, <3>3, <3>4, <3>5, <3>6 DEF LastEntry
  <2>2. CASE k # key[t]
    <3>1. k \notin risk /\ ~Adding(k) /\ stored'[k] = stored[k]
      BY <1>1, <1>2, <1>3, <1>7, <2>2 DEF Adding, JavaTypeOK
    <3>2. \A i \in Entries(words') : words'[i] = k => i \in Entries(words) /\ words[i] = k
      <4>1. ASSUME Len(words) + 1 \in Entries(words'), words'[Len(words) + 1] = k PROVE FALSE
        BY <1>2, <1>4, <1>7, <4>1 DEF Entries, Torn
      <4> QED BY <1>4, <4>1 DEF Entries
    <3>3. CASE stored[k] = NoValue /\ \A i \in Entries(words) : words[i] # k
      BY <3>1, <3>2, <3>3
    <3>4. ASSUME NEW i \in 1 .. Len(words) - 1, LastEntry(words, k, i),
                 Lies(values, words[i + 1], stored[k])
          PROVE  LastEntry(words', k, i) /\ Lies(values', words'[i + 1], stored'[k])
      <4>1. words'[i] = words[i] /\ words'[i + 1] = words[i + 1] /\ i \in DOMAIN words'
        BY <1>4, <3>4
      <4>2. LastEntry(words', k, i)
        BY <3>2, <3>4, <4>1 DEF LastEntry, Entries
      <4> QED BY <1>2, <3>1, <3>4, <4>1, <4>2
    <3>5. Len(words') - 1 = Len(words) /\ 1 .. Len(words) - 1 \subseteq 1 .. Len(words)
      BY <1>4
    <3> QED BY <1>1, <3>1, <3>3, <3>4, <3>5 DEF KeyFileRight
  <2> QED BY <2>1, <2>2
<1>8. \A u \in Threads : pc'[u] # "write_position"
  BY <1>2, <1>3
<1> QED BY <1>7, <1>8 DEF KeyFileRight

LEMMA KeyFileStep ==
  ASSUME JavaInv, [JavaNext]_jvars
  PROVE  KeyFileRight'
<1>1. JavaTypeOK /\ Placed /\ KeyFileRight /\ WriterKnows
  BY DEF JavaInv
<1>2. \A p, v : Lies(values, p, v) => Lies(values', p, v)
  BY <1>1, LiesKept
<1>3. CASE \E t \in Threads : WriteKey(t) \/ WritePosition(t)
  BY <1>3, WriteKeyKeeps, WritePositionKeeps
<1>4. CASE KillAndOpen
  <2>1. /\ words' = words /\ stored' = stored
        /\ \A u \in Threads : pc'[u] # "write_position"
        /\ \A k \in Keys \ risk' : k \notin risk /\ ~Adding(k)
    BY <1>4 DEF KillAndOpen, disk, ForAll, Adding
  <2> QED BY <1>1, <1>2, <2>1 DEF KeyFileRight
<1>5. CASE ~KillAndOpen /\ \A t \in Threads : ~WriteKey(t) /\ ~WritePosition(t)
  <2>1. KeyFileSame
    BY <1>1, <1>5, KeyFileSameStep
  <2>2. \A k : Adding(k)' => Adding(k)
    BY <2>1 DEF KeyFileSame, Adding
  <2>3. \A k : Adding(k) => Adding(k)'
    BY <2>1 DEF KeyFileSame, Adding
  <2> QED BY <1>1, <1>2, <2>1, <2>2, <2>3 DEF KeyFileRight, KeyFileSame, Torn
<1> QED BY <1>3, <1>4, <1>5

-----------------------------------------------------------------------------
(* The map in memory.                                                      *)

\* AckedReadable for one key, in terms of Lies.
MapGives(vs, tr, k, v) ==
  IF v = NoValue THEN k \notin DOMAIN tr ELSE k \in DOMAIN tr /\ Lies(vs, tr[k], v)

LEMMA MapGivesIs ==
  ASSUME NEW vs \in Seq(Vals), NEW tr, NEW k, NEW v
  PROVE  MapGives(vs, tr, k, v) <=>
           IF v = NoValue THEN k \notin DOMAIN tr
           ELSE /\ k \in DOMAIN tr /\ tr[k] \in {Position(i - 1) : i \in DOMAIN vs}
                /\ vs[tr[k] \div ValueSize + 1] = v
BY LiesValue DEF MapGives

\* KeyCache.getMap finds the last entry of a key.
LEMMA GetMapGives ==
  ASSUME NEW ws \in Seq(Nat), NEW vs, NEW k, NEW v,
         \/ v = NoValue /\ \A i \in Entries(ws) : ws[i] # k
         \/ /\ v # NoValue
            /\ \E i \in 1 .. Len(ws) - 1 : LastEntry(ws, k, i) /\ Lies(vs, ws[i + 1], v)
  PROVE  MapGives(vs, GetMap(ws), k, v)
<1>1. DOMAIN GetMap(ws) = {ws[i] : i \in Entries(ws)}
  BY DEF GetMap
<1>2. CASE v = NoValue /\ \A i \in Entries(ws) : ws[i] # k
  BY <1>1, <1>2 DEF MapGives
<1>3. ASSUME v # NoValue, NEW i \in 1 .. Len(ws) - 1, LastEntry(ws, k, i),
             Lies(vs, ws[i + 1], v)
      PROVE  MapGives(vs, GetMap(ws), k, v)
  <2> DEFINE S == {j \in Entries(ws) : ws[j] = k}
  <2>1. S \subseteq Nat /\ i \in S /\ \A j \in S : j <= i
    <3>1. \A j \in Entries(ws) : j \in Nat
      BY DEF Entries
    <3> QED BY <1>3, <3>1 DEF LastEntry
  <2>2. Max(S) = i
    <3> HIDE DEF S
    <3> QED BY <2>1, MaxIs
  <2>3. k \in {ws[j] : j \in Entries(ws)}
    BY <2>1
  <2>4. GetMap(ws)[k] = Word(ws, 1 + i)
    BY <2>2, <2>3 DEF GetMap
  <2>5. Word(ws, 1 + i) = ws[i + 1]
    BY <1>3 DEF Word
  <2> QED BY <1>1, <1>3, <2>3, <2>4, <2>5 DEF MapGives
<1> QED BY <1>2, <1>3

\* Only put, a kill, open and close change the map, and only the second word
\* of an entry what it should hold.
MapSame ==
  /\ tree' = tree /\ stored' = stored /\ risk' = risk /\ up' = up
  /\ \A k : InFlight(k) => InFlight(k)'

LEMMA MapSameStep ==
  ASSUME JavaTypeOK, [JavaNext]_jvars, ~KillAndOpen, ~Close, ~OpenAgain,
         \A t \in Threads : ~WritePosition(t) /\ ~Put(t)
  PROVE  MapSame
<1>1. tree' = tree /\ stored' = stored /\ risk' = risk /\ up' = up
  BY DEF JavaNext, jvars, disk, statics, locals, history, BeginWrite, BeginRead, Check, Create,
     ReturnFile, Enter, SeekValue, WriteValue, WriteKey, Get, SeekRead, ReadValue, ReadReturns
<1>2. ASSUME NEW u \in Threads, pc[u] = "put"
      PROVE  pc'[u] = "put" /\ key'[u] = key[u]
  <2>1. pc'[u] = pc[u]
    <3>1. CASE pc'[u] = "idle"
      BY ZenonT(60), <1>2, <3>1 DEF JavaTypeOK, JavaNext, jvars, disk, statics, locals, history, BeginWrite,
         BeginRead, Check, Create, ReturnFile, Enter, SeekValue, WriteValue, WriteKey, Get,
         SeekRead, ReadValue, ReadReturns, Step
    <3>2. CASE pc'[u] # "idle" /\ pc'[u] # pc[u]
      <4>1. \/ u \in Writers /\ \E k \in Keys, v \in Vals : BeginWrite(u, k, v)
            \/ u \in Readers /\ \E k \in Keys : BeginRead(u, k)
            \/ Check(u) \/ Create(u) \/ ReturnFile(u) \/ Enter(u)
            \/ SeekValue(u) \/ WriteValue(u) \/ WriteKey(u) \/ WritePosition(u) \/ Put(u)
            \/ Get(u) \/ SeekRead(u) \/ ReadValue(u) \/ ReadReturns(u)
        BY <3>2, OwnStep
      <4>2. ~Put(u)
        OBVIOUS
      <4> QED BY <1>2, <4>1, <4>2 DEF BeginWrite, BeginRead, Check, Create, ReturnFile, Enter,
            SeekValue, WriteValue, WriteKey, WritePosition, Get, SeekRead, ReadValue,
            ReadReturns, Step
    <3> QED BY <3>1, <3>2, <1>2
  <2>2. Kept(u)
    BY <1>2, <2>1, KeptStep
  <2> QED BY <1>2, <2>1, <2>2 DEF Kept
<1>3. \A k : InFlight(k) => InFlight(k)'
  BY <1>2 DEF InFlight
<1> QED BY <1>1, <1>3 DEF MapSame

LEMMA PutGives ==
  ASSUME JavaInv, NEW t \in Threads, Put(t), NEW k \in Keys \ risk', ~InFlight(k)', up' = "open"
  PROVE  MapGives(values', tree', k, stored'[k])
<1>1. JavaTypeOK /\ Placed /\ Monitored /\ WriterKnows /\ AckedReadable
  BY DEF JavaInv
<1>2. /\ pc[t] = "put" /\ up = "open" /\ values' = values /\ stored' = stored /\ risk' = risk
      /\ tree' = [j \in DOMAIN tree \union {key[t]} |-> IF j = key[t] THEN at[t] ELSE tree[j]]
  BY DEF Put, Step, disk, history
<1>3. t \in Writers /\ val[t] \in Vals
  BY <1>1, <1>2 DEF Placed, WriterInside, Threads
<1>4. CASE k = key[t]
  <2>1. Lies(values, at[t], val[t]) /\ stored[k] = val[t] /\ val[t] # NoValue
    BY <1>1, <1>2, <1>3, <1>4, JavaAssumption DEF WriterKnows
  <2>2. k \in DOMAIN tree' /\ tree'[k] = at[t]
    BY <1>2, <1>4
  <2> QED BY <1>2, <2>1, <2>2 DEF MapGives
<1>5. CASE k # key[t]
  <2>1. ~InFlight(k) /\ k \in Keys \ risk
    BY <1>1, <1>2, <1>5, OnlyOne DEF InFlight, WriterInside
  <2>2. MapGives(values, tree, k, stored[k])
    BY <1>1, <1>2, <2>1, MapGivesIs DEF AckedReadable, JavaTypeOK
  <2>3. (k \in DOMAIN tree' <=> k \in DOMAIN tree) /\ (k \in DOMAIN tree => tree'[k] = tree[k])
    BY <1>2, <1>5
  <2> QED BY <1>2, <2>2, <2>3 DEF MapGives
<1> QED BY <1>4, <1>5

LEMMA AckedStep ==
  ASSUME JavaInv, [JavaNext]_jvars, JavaTypeOK'
  PROVE  AckedReadable'
<1>1. JavaTypeOK /\ Placed /\ Monitored /\ KeyFileRight /\ WriterKnows /\ AckedReadable
  BY DEF JavaInv
<1> SUFFICES ASSUME up' = "open", NEW k \in Keys \ risk', ~InFlight(k)'
             PROVE  MapGives(values', tree', k, stored'[k])
  BY MapGivesIs DEF AckedReadable, JavaTypeOK
<1>2. \A p, v : Lies(values, p, v) => Lies(values', p, v)
  BY <1>1, LiesKept
<1>3. ASSUME up = "open", k \notin risk, ~InFlight(k)
      PROVE  MapGives(values', tree, k, stored[k])
  <2>1. MapGives(values, tree, k, stored[k])
    BY <1>1, <1>3, MapGivesIs DEF AckedReadable, JavaTypeOK
  <2> QED BY <1>2, <2>1 DEF MapGives
<1>4. CASE \E t \in Threads : Put(t)
  BY <1>4, PutGives
<1>5. ASSUME NEW t \in Threads, WritePosition(t)
      PROVE  MapGives(values', tree', k, stored'[k])
  <2>1. /\ pc[t] = "write_position" /\ up = "open" /\ tree' = tree
        /\ risk \subseteq risk' /\ pc'[t] = "put" /\ key' = key
        /\ \A u \in Threads : u # t => pc'[u] = pc[u]
        /\ stored' = [stored EXCEPT ![key[t]] = val[t]]
    BY <1>1, <1>5 DEF WritePosition, Step, locals, JavaTypeOK
  <2>2. k # key[t] /\ ~InFlight(k)
    BY <2>1 DEF InFlight
  <2>3. stored'[k] = stored[k] /\ k \notin risk
    BY <1>1, <2>1, <2>2 DEF JavaTypeOK
  <2> QED BY <1>3, <2>1, <2>2, <2>3
<1>6. CASE KillAndOpen
  <2>1. /\ tree' = GetMap(words) /\ values' = values /\ stored' = stored /\ k \notin risk
        /\ ~Adding(k)
    BY <1>6 DEF KillAndOpen, disk, Adding
  <2>2. \/ stored[k] = NoValue /\ \A i \in Entries(words) : words[i] # k
        \/ \E i \in 1 .. Len(words) - 1 : LastEntry(words, k, i) /\ Lies(values, words[i + 1], stored[k])
    BY <1>1, <2>1 DEF KeyFileRight
  <2>3. \A p : ~Lies(values, p, NoValue)
    BY <1>1, JavaAssumption DEF Lies, JavaTypeOK
  <2> QED BY <1>1, <2>1, <2>2, <2>3, GetMapGives DEF JavaTypeOK
<1>7. CASE Close \/ OpenAgain
  BY <1>7 DEF Close, OpenAgain
<1>8. CASE /\ ~KillAndOpen /\ ~Close /\ ~OpenAgain
           /\ \A t \in Threads : ~WritePosition(t) /\ ~Put(t)
  <2>1. MapSame
    BY <1>1, <1>8, MapSameStep
  <2> QED BY <1>3, <2>1 DEF MapSame
<1> QED BY <1>4, <1>5, <1>6, <1>7, <1>8

-----------------------------------------------------------------------------
LEMMA JavaInvStep == JavaInv /\ [JavaNext]_jvars => JavaInv'
<1> SUFFICES ASSUME JavaInv, [JavaNext]_jvars PROVE JavaInv'
  OBVIOUS
<1>1. JavaTypeOK /\ Placed /\ Monitored /\ WriterKnows
  BY DEF JavaInv
<1>2. JavaTypeOK' /\ Monitored' /\ Placed' /\ WriterKnows'
  BY <1>1, JavaTypeStep, MonitoredStep, PlacedStep, WriterKnowsStep
<1> QED BY <1>2, ReaderKnowsStep, KeyFileStep, AckedStep DEF JavaInv

\* What the threads of the Java engine, its two files and its map rely on of
\* each other at every step, kills included (EngineRace.java, KeyCache.java,
\* DatabaseResources.java).
THEOREM JavaInvariant == JavaSpec => []JavaInv
BY InitInv, JavaInvStep, PTL DEF JavaSpec

\* For any number of threads, keys, writes and kills, the map in memory has
\* every key whose write returned with its last value, but for the keys that
\* torn entries of key.db have put at risk (EngineRace.java:52-69,
\* KeyCache.java:22-44).
THEOREM AcknowledgedReadable == JavaSpec => []AckedReadable
<1>1. JavaInv => AckedReadable
  BY DEF JavaInv
<1> QED BY <1>1, JavaInvariant, PTL

\* A read that began while no put was running returns the value its key had
\* then, whatever is written while it waits for the monitor and whichever
\* handle of value.db it was given (EngineRace.java:72-86).
THEOREM ReadsExact == JavaSpec => []ReadExact
<1>1. JavaInv => ReadExact
  BY DEF JavaInv
<1> QED BY <1>1, JavaInvariant, PTL
=============================================================================
