----------------------------- MODULE DataFacts -----------------------------
(***************************************************************************)
(* Facts about numbers and sequences that the proofs share.  Induction     *)
(* over the natural numbers is stated for sets: the smallest and the       *)
(* greatest member, and what is closed under successor.                    *)
(***************************************************************************)
EXTENDS Integers, Sequences, FiniteSetsExt, SequencesExt, SequenceTheorems,
        WellFoundedInduction, TLAPS

\* A set of natural numbers has a smallest member.
LEMMA LeastNatural ==
  ASSUME NEW S \in SUBSET Nat, S # {}
  PROVE  \E n \in S : \A m \in S : n <= m
<1> DEFINE R == OpToRel(<, Nat)
<1>1. IsWellFoundedOn(R, Nat)
  BY NatLessThanWellFounded
<1>2. \A x, y \in Nat : x < y => <<x, y>> \in R
  BY DEF OpToRel
<1> HIDE DEF R
<1>3. PICK x \in S : \A y \in S : ~ (<<y, x>> \in R)
  BY <1>1, WFMin
<1>4. ASSUME NEW m \in S PROVE x <= m
  <2>1. x \in Nat /\ m \in Nat
    OBVIOUS
  <2>2. ~ (m < x)
    BY <1>2, <1>3, <2>1
  <2> QED BY <2>1, <2>2
<1> QED BY <1>4

\* What holds 0 and, with a number, the next one, holds them all.
LEMMA Induct ==
  ASSUME NEW S, 0 \in S, \A n \in Nat : n \in S => n + 1 \in S
  PROVE  Nat \subseteq S
<1> SUFFICES ASSUME Nat \ S # {} PROVE FALSE
  OBVIOUS
<1>1. PICK n \in Nat \ S : \A m \in Nat \ S : n <= m
  BY LeastNatural
<1>2. n - 1 \in Nat /\ n - 1 \in S
  BY <1>1
<1> QED BY <1>1, <1>2

\* A set of natural numbers with a bound has a greatest member.
LEMMA GreatestNatural ==
  ASSUME NEW b \in Nat, NEW S \in SUBSET (0 .. b), S # {}
  PROVE  \E n \in S : \A m \in S : m <= n
<1> DEFINE T == {b - m : m \in S}
<1>1. T \subseteq Nat /\ T # {}
  <2>1. \A m \in S : b - m \in Nat
    OBVIOUS
  <2> QED BY <2>1
<1>2. PICK t \in T : \A u \in T : t <= u
  BY <1>1, LeastNatural
<1>3. PICK n \in S : t = b - n
  BY <1>2
<1>4. ASSUME NEW m \in S PROVE m <= n
  <2>1. t <= b - m
    BY <1>2
  <2>2. m \in Int /\ n \in Int
    OBVIOUS
  <2> QED BY <2>1, <2>2, <1>3
<1> QED BY <1>4

\* Max is what it should be where there is a greatest member.
LEMMA MaxIs ==
  ASSUME NEW S \in SUBSET Nat, NEW m \in S, \A x \in S : x <= m
  PROVE  Max(S) = m
<1>1. \E x \in S : \A y \in S : x >= y
  OBVIOUS
<1>2. Max(S) \in S /\ \A y \in S : Max(S) >= y
  BY <1>1, Zenon DEF Max
<1>3. Max(S) \in Nat /\ Max(S) >= m /\ Max(S) <= m
  BY <1>2
<1> QED BY <1>3

\* Half of a number.
LEMMA Halves ==
  \A m \in Nat : m \div 2 \in Nat /\ (m = 2 * (m \div 2) \/ m = 2 * (m \div 2) + 1)
OBVIOUS

-----------------------------------------------------------------------------
(* Sequences.                                                              *)

\* What InsertAt returns.
LEMMA InsertAtProps ==
  ASSUME NEW S, NEW s \in Seq(S), NEW i \in 1 .. Len(s) + 1, NEW e \in S
  PROVE  /\ InsertAt(s, i, e) \in Seq(S) /\ Len(InsertAt(s, i, e)) = Len(s) + 1
         /\ \A j \in 1 .. Len(s) + 1 :
              InsertAt(s, i, e)[j] = IF j < i THEN s[j] ELSE IF j = i THEN e ELSE s[j - 1]
<1> DEFINE a == SubSeq(s, 1, i - 1)
           c == SubSeq(s, i, Len(s))
<1>1. Len(s) \in Nat /\ i \in Int /\ \A j \in 1 .. Len(s) : s[j] \in S
  OBVIOUS
<1>2. a \in Seq(S) /\ Len(a) = i - 1 /\ \A j \in 1 .. i - 1 : a[j] = s[j]
  BY <1>1, SubSeqProperties
<1>3. c \in Seq(S) /\ Len(c) = Len(s) - i + 1 /\ \A j \in 1 .. Len(s) - i + 1 : c[j] = s[i + j - 1]
  BY <1>1, SubSeqProperties
<1>4. <<e>> \in Seq(S) /\ Len(<<e>>) = 1 /\ <<e>>[1] = e
  OBVIOUS
<1> HIDE DEF a, c
<1> DEFINE b == a \o <<e>>
<1>5. /\ b \in Seq(S) /\ Len(b) = i
      /\ \A j \in 1 .. i : b[j] = IF j < i THEN s[j] ELSE e
  BY <1>1, <1>2, <1>4, ConcatProperties
<1> HIDE DEF b
<1>6. Len(b) + Len(c) = Len(s) + 1
  BY <1>1, <1>3, <1>5
<1>8. /\ b \o c \in Seq(S) /\ Len(b \o c) = Len(b) + Len(c)
      /\ \A j \in 1 .. Len(b) + Len(c) : (b \o c)[j] = IF j <= Len(b) THEN b[j] ELSE c[j - Len(b)]
  BY <1>3, <1>5, ConcatProperties
<1>7. ASSUME NEW j \in 1 .. Len(s) + 1
      PROVE  (b \o c)[j] = IF j < i THEN s[j] ELSE IF j = i THEN e ELSE s[j - 1]
  <2>1. CASE j <= i
    BY <1>1, <1>5, <1>6, <1>8, <2>1
  <2>2. CASE i < j
    <3>1. j - i \in 1 .. Len(s) - i + 1 /\ i + (j - i) - 1 = j - 1
      BY <1>1, <2>2
    <3>2. (b \o c)[j] = c[j - i]
      BY <1>1, <1>5, <1>6, <1>8, <2>2
    <3>3. c[j - i] = s[i + (j - i) - 1]
      BY <1>3, <3>1
    <3>4. (b \o c)[j] = s[j - 1]
      BY <3>1, <3>2, <3>3
    <3> QED BY <2>2, <3>4
  <2>3. j <= i \/ i < j
    BY <1>1
  <2> QED BY <2>1, <2>2, <2>3
<1> QED BY <1>6, <1>7, <1>8 DEF InsertAt, a, b, c

\* Sequences with the same elements are the same.
LEMMA SameSeq ==
  ASSUME NEW S, NEW s \in Seq(S), NEW t \in Seq(S), Len(s) = Len(t),
         \A i \in 1 .. Len(s) : s[i] = t[i]
  PROVE  s = t
<1>1. s = [i \in 1 .. Len(s) |-> s[i]] /\ t = [i \in 1 .. Len(t) |-> t[i]]
  OBVIOUS
<1> QED BY <1>1

\* The members of a sequence that is put together.
LEMMA ConcatMembers ==
  \A S : \A s, t \in Seq(S) : s \o t \in Seq(S) /\ ToSet(s \o t) = ToSet(s) \union ToSet(t)
<1> SUFFICES ASSUME NEW S, NEW s \in Seq(S), NEW t \in Seq(S)
             PROVE  s \o t \in Seq(S) /\ ToSet(s \o t) = ToSet(s) \union ToSet(t)
  OBVIOUS
<1>1. /\ s \o t \in Seq(S) /\ Len(s \o t) = Len(s) + Len(t)
      /\ \A i \in 1 .. Len(s) + Len(t) : (s \o t)[i] = IF i <= Len(s) THEN s[i] ELSE t[i - Len(s)]
  BY ConcatProperties
<1> DEFINE c == s \o t
<1>2. DOMAIN c = 1 .. Len(s) + Len(t) /\ DOMAIN s = 1 .. Len(s) /\ DOMAIN t = 1 .. Len(t)
      /\ Len(s) \in Nat /\ Len(t) \in Nat
  BY <1>1
<1>3. \A i \in 1 .. Len(s) + Len(t) : c[i] = IF i <= Len(s) THEN s[i] ELSE t[i - Len(s)]
  BY <1>1
<1> HIDE DEF c
<1>4. ASSUME NEW x \in ToSet(c) PROVE x \in ToSet(s) \union ToSet(t)
  <2>1. PICK i \in 1 .. Len(s) + Len(t) : x = c[i]
    BY <1>2 DEF ToSet
  <2>2. i <= Len(s) => i \in DOMAIN s /\ x = s[i]
    BY <1>2, <1>3, <2>1
  <2>3. ~ (i <= Len(s)) => i - Len(s) \in DOMAIN t /\ x = t[i - Len(s)]
    BY <1>2, <1>3, <2>1
  <2> QED BY <2>2, <2>3 DEF ToSet
<1>5. ASSUME NEW x \in ToSet(s) PROVE x \in ToSet(c)
  <2>1. PICK i \in 1 .. Len(s) : x = s[i]
    BY <1>2 DEF ToSet
  <2>2. i \in DOMAIN c /\ c[i] = x
    BY <1>2, <1>3, <2>1
  <2> QED BY <2>2 DEF ToSet
<1>6. ASSUME NEW x \in ToSet(t) PROVE x \in ToSet(c)
  <2>1. PICK i \in 1 .. Len(t) : x = t[i]
    BY <1>2 DEF ToSet
  <2>2. i + Len(s) \in 1 .. Len(s) + Len(t) /\ ~ (i + Len(s) <= Len(s)) /\ i + Len(s) - Len(s) = i
    BY <1>2
  <2>3. i + Len(s) \in DOMAIN c /\ c[i + Len(s)] = x
    BY <1>2, <1>3, <2>1, <2>2
  <2> QED BY <2>3 DEF ToSet
<1> QED BY <1>1, <1>4, <1>5, <1>6 DEF c

\* The members of a sequence are its first one and those of the rest.
LEMMA TailMembers ==
  ASSUME NEW S, NEW s \in Seq(S), s # << >>
  PROVE  Head(s) \in S /\ Tail(s) \in Seq(S) /\ ToSet(s) = {Head(s)} \union ToSet(Tail(s))
<1>1. /\ Len(s) \in Nat /\ Len(s) >= 1 /\ DOMAIN s = 1 .. Len(s)
      /\ Head(s) = s[1] /\ Head(s) \in S
  OBVIOUS
<1>2. /\ Tail(s) \in Seq(S) /\ Len(Tail(s)) = Len(s) - 1 /\ DOMAIN Tail(s) = 1 .. Len(Tail(s))
      /\ \A i \in 1 .. Len(s) - 1 : Tail(s)[i] = s[i + 1]
  BY HeadTailProperties
<1> DEFINE t == Tail(s)
<1>3. DOMAIN t = 1 .. Len(s) - 1 /\ \A i \in 1 .. Len(s) - 1 : t[i] = s[i + 1]
  BY <1>2
<1> HIDE DEF t
<1>4. ASSUME NEW x \in ToSet(s), x # s[1] PROVE x \in ToSet(t)
  <2>1. PICK i \in 1 .. Len(s) : x = s[i]
    BY <1>1 DEF ToSet
  <2>2. i - 1 \in 1 .. Len(s) - 1 /\ (i - 1) + 1 = i
    BY <1>1, <1>4, <2>1
  <2>3. i - 1 \in DOMAIN t /\ t[i - 1] = x
    BY <1>3, <2>1, <2>2
  <2> QED BY <2>3 DEF ToSet
<1>5. ASSUME NEW x \in ToSet(t) PROVE x \in ToSet(s)
  <2>1. PICK i \in 1 .. Len(s) - 1 : x = s[i + 1]
    BY <1>3 DEF ToSet
  <2>2. i + 1 \in DOMAIN s
    BY <1>1
  <2> QED BY <2>1, <2>2 DEF ToSet
<1>6. s[1] \in ToSet(s)
  BY <1>1 DEF ToSet
<1> QED BY <1>1, <1>2, <1>4, <1>5, <1>6 DEF t

\* Short sequences.
LEMMA FewMembers ==
  /\ ToSet(<< >>) = {}
  /\ \A x : ToSet(<<x>>) = {x}
  /\ \A x, y : ToSet(<<x, y>>) = {x, y}
<1>1. ToSet(<< >>) = {}
  BY DEF ToSet
<1>2. ASSUME NEW x PROVE ToSet(<<x>>) = {x}
  <2>1. DOMAIN <<x>> = {1} /\ <<x>>[1] = x
    OBVIOUS
  <2> QED BY <2>1 DEF ToSet
<1>3. ASSUME NEW x, NEW y PROVE ToSet(<<x, y>>) = {x, y}
  <2>1. DOMAIN <<x, y>> = {1, 2} /\ <<x, y>>[1] = x /\ <<x, y>>[2] = y
    OBVIOUS
  <2> QED BY <2>1 DEF ToSet
<1> QED BY <1>1, <1>2, <1>3

\* f is the recursive function on 1 .. N that starts with a and goes on with
\* G; its i-th value is in D[i].
Iterated(N, D, G, a, f) ==
  /\ f = [i \in 1 .. N |-> IF i = 1 THEN a ELSE G[i - 1][f[i - 1]]]
  /\ \A i \in 1 .. N : f[i] \in D[i]

\* Its first m values.
Upto(m, D, G, a, f) ==
  /\ f = [i \in 1 .. m |-> f[i]]
  /\ f[1] = a
  /\ \A i \in 1 .. m - 1 : f[i + 1] = G[i][f[i]]
  /\ \A i \in 1 .. m : f[i] \in D[i]

\* There is one.
LEMMA Iterate ==
  ASSUME NEW N \in Nat \ {0}, NEW D, NEW G, NEW a, a \in D[1],
         \A i \in 1 .. N - 1 : \A x \in D[i] : G[i][x] \in D[i + 1]
  PROVE  \E f : Iterated(N, D, G, a, f)
<1> DEFINE S == {m \in Nat : m + 1 <= N => \E f : Upto(m + 1, D, G, a, f)}
<1>1. 0 \in S
  <2> DEFINE f == [i \in 1 .. 1 |-> a]
  <2>1. f = [i \in 1 .. 1 |-> f[i]] /\ f[1] = a
    OBVIOUS
  <2>2. \A i \in 1 .. 1 - 1 : FALSE
    OBVIOUS
  <2>3. \A i \in 1 .. 1 : i = 1
    OBVIOUS
  <2> HIDE DEF f
  <2>4. Upto(1, D, G, a, f)
    BY <2>1, <2>2, <2>3 DEF Upto
  <2>5. 0 + 1 = 1 /\ 0 \in Nat
    OBVIOUS
  <2>6. \E g : Upto(0 + 1, D, G, a, g)
    BY <2>4, <2>5
  <2> QED BY <2>5, <2>6
<1>2. ASSUME NEW m \in Nat, m \in S PROVE m + 1 \in S
  <2> DEFINE p == m + 1
             r == p + 1
  <2> SUFFICES ASSUME r <= N PROVE \E f : Upto(r, D, G, a, f)
    BY <1>2
  <2>1. p <= N /\ p \in Nat \ {0} /\ p \in 1 .. N - 1 /\ 1 \in 1 .. p /\ p \in 1 .. p
    OBVIOUS
  <2>2. PICK f : Upto(p, D, G, a, f)
    BY <1>2, <2>1
  <2>3. r \in Nat /\ r = p + 1
    BY <2>1
  <2> HIDE DEF p, r
  <2>4. f[1] = a
    BY <2>2 DEF Upto
  <2>5. \A i \in 1 .. p - 1 : f[i + 1] = G[i][f[i]]
    BY <2>2 DEF Upto
  <2>6. \A i \in 1 .. p : f[i] \in D[i]
    BY <2>2 DEF Upto
  <2> DEFINE g == [i \in 1 .. r |-> IF i = r THEN G[p][f[p]] ELSE f[i]]
  <2>7. g = [i \in 1 .. r |-> g[i]]
    OBVIOUS
  <2>8. g[r] = G[p][f[p]] /\ \A i \in 1 .. p : g[i] = f[i]
    BY <2>1, <2>3
  <2> HIDE DEF g
  <2>9. g[1] = a
    BY <2>1, <2>4, <2>8
  <2>10. \A i \in 1 .. r - 1 : g[i + 1] = G[i][g[i]]
    <3> SUFFICES ASSUME NEW i \in 1 .. r - 1 PROVE g[i + 1] = G[i][g[i]]
      OBVIOUS
    <3>1. CASE i = p
      BY <2>1, <2>3, <2>8, <3>1
    <3>2. CASE i # p
      <4>1. i \in 1 .. p - 1 /\ i \in 1 .. p /\ i + 1 \in 1 .. p
        BY <2>1, <2>3, <3>2
      <4>2. f[i + 1] = G[i][f[i]]
        BY <2>5, <4>1
      <4>3. g[i + 1] = f[i + 1] /\ g[i] = f[i]
        BY <2>8, <4>1
      <4> QED BY <4>2, <4>3
    <3> QED BY <3>1, <3>2
  <2>11. \A i \in 1 .. r : g[i] \in D[i]
    <3> SUFFICES ASSUME NEW i \in 1 .. r PROVE g[i] \in D[i]
      OBVIOUS
    <3>1. CASE i = r
      <4>1. f[p] \in D[p]
        BY <2>1, <2>6
      <4>2. G[p][f[p]] \in D[p + 1]
        BY <2>1, <4>1
      <4> QED BY <2>3, <2>8, <3>1, <4>2
    <3>2. CASE i # r
      <4>1. i \in 1 .. p
        BY <2>1, <2>3, <3>2
      <4>2. f[i] \in D[i] /\ g[i] = f[i]
        BY <2>6, <2>8, <4>1
      <4> QED BY <4>2
    <3> QED BY <3>1, <3>2
  <2>12. Upto(r, D, G, a, g)
    BY <2>7, <2>9, <2>10, <2>11 DEF Upto
  <2> QED BY <2>12
<1> HIDE DEF S
<1>3. Nat \subseteq S
  BY <1>1, <1>2, Induct
<1>4. PICK f : Upto(N, D, G, a, f)
  <2>1. N - 1 \in Nat /\ N - 1 + 1 = N
    OBVIOUS
  <2>2. N - 1 \in S
    BY <1>3, <2>1
  <2>3. \E f : Upto(N - 1 + 1, D, G, a, f)
    BY <2>1, <2>2 DEF S
  <2> QED BY <2>1, <2>3
<1>5. /\ f = [i \in 1 .. N |-> f[i]] /\ f[1] = a
      /\ \A i \in 1 .. N - 1 : f[i + 1] = G[i][f[i]]
      /\ \A i \in 1 .. N : f[i] \in D[i]
  BY <1>4 DEF Upto
<1>6. \A i \in 1 .. N : f[i] = IF i = 1 THEN a ELSE G[i - 1][f[i - 1]]
  <2> SUFFICES ASSUME NEW i \in 1 .. N, i # 1 PROVE f[i] = G[i - 1][f[i - 1]]
    BY <1>5
  <2>1. i - 1 \in 1 .. N - 1 /\ i - 1 + 1 = i
    OBVIOUS
  <2> QED BY <1>5, <2>1
<1>7. f = [i \in 1 .. N |-> IF i = 1 THEN a ELSE G[i - 1][f[i - 1]]]
  <2>1. [i \in 1 .. N |-> f[i]] = [i \in 1 .. N |-> IF i = 1 THEN a ELSE G[i - 1][f[i - 1]]]
    BY <1>6
  <2> QED BY <1>5, <2>1
<1>8. Iterated(N, D, G, a, f)
  BY <1>5, <1>7 DEF Iterated
<1> QED BY <1>8

\* G makes functions on B of functions on B, and what it gives for o depends
\* on what they are for smaller ranks only.
Ranked(B, C, rank, G) ==
  /\ \A F \in [B -> C] : G[F] \in [B -> C]
  /\ \A E, F \in [B -> C] : \A o \in B :
       (\A x \in B : rank[x] < rank[o] => E[x] = F[x]) => G[E][o] = G[F][o]

\* There is a function that it makes of itself.
LEMMA Recursive ==
  ASSUME NEW B, NEW C, NEW M \in Nat, NEW rank \in [B -> 0 .. M], NEW G, NEW a \in [B -> C],
         Ranked(B, C, rank, G)
  PROVE  \E W \in [B -> C] : W = G[W]
<1> DEFINE Fs == [B -> C]
           N == M + 3
           D == [i \in 1 .. N |-> Fs]
           G2 == [i \in 1 .. N |-> [F \in Fs |-> G[F]]]
<1>1. N \in Nat \ {0} /\ N = M + 3
  OBVIOUS
<1>2. \A F \in Fs : G[F] \in Fs
  BY DEF Ranked
<1>3. \A E, F \in Fs : \A o \in B :
        (\A x \in B : rank[x] < rank[o] => E[x] = F[x]) => G[E][o] = G[F][o]
  BY DEF Ranked
<1>4. a \in Fs
  OBVIOUS
<1>5. \A E, F \in Fs : (\A x \in B : E[x] = F[x]) => E = F
  OBVIOUS
<1>6. \A x \in B : rank[x] \in 0 .. M
  OBVIOUS
<1> HIDE DEF N, Fs
<1>7. /\ \A i \in 1 .. N : D[i] = Fs
      /\ \A i \in 1 .. N : \A F \in Fs : G2[i][F] = G[F]
  OBVIOUS
<1> HIDE DEF D, G2
<1>8. a \in D[1]
  <2>1. 1 \in 1 .. N
    BY <1>1
  <2> QED BY <1>4, <1>7, <2>1
<1>9. \A i \in 1 .. N - 1 : \A F \in D[i] : G2[i][F] \in D[i + 1]
  <2> SUFFICES ASSUME NEW i \in 1 .. N - 1, NEW F \in D[i] PROVE G2[i][F] \in D[i + 1]
    OBVIOUS
  <2>1. i \in 1 .. N /\ i + 1 \in 1 .. N
    BY <1>1
  <2> QED BY <1>2, <1>7, <2>1
<1>10. PICK f : Iterated(N, D, G2, a, f)
  BY <1>1, <1>8, <1>9, Iterate
<1>11. /\ f = [i \in 1 .. N |-> IF i = 1 THEN a ELSE G2[i - 1][f[i - 1]]]
       /\ \A i \in 1 .. N : f[i] \in D[i]
  BY <1>10 DEF Iterated
<1>12. \A i \in 1 .. N : f[i] \in Fs
  BY <1>7, <1>11
<1>13. \A i \in 1 .. N : i + 1 <= N => f[i + 1] = G[f[i]]
  <2> SUFFICES ASSUME NEW i \in 1 .. N, i + 1 <= N PROVE f[i + 1] = G[f[i]]
    OBVIOUS
  <2> DEFINE j == i + 1
  <2>1. j \in 1 .. N /\ j # 1 /\ j - 1 = i
    BY <1>1
  <2> HIDE DEF j
  <2>2. f[j] = G2[j - 1][f[j - 1]]
    BY <1>11, <2>1
  <2>3. f[j] = G[f[i]]
    BY <1>7, <1>12, <2>1, <2>2
  <2> QED BY <2>3 DEF j
<1> DEFINE T == {m \in Nat : m + 2 <= N => \A x \in B : rank[x] < m => f[m + 2] [x] = f[m + 1][x]}
<1>14. 0 \in T
  BY <1>6
<1>15. ASSUME NEW m \in Nat, m \in T PROVE m + 1 \in T
  <2> SUFFICES ASSUME m + 1 + 2 <= N, NEW x \in B, rank[x] < m + 1
               PROVE  f[m + 1 + 2][x] = f[m + 1 + 1][x]
    OBVIOUS
  <2> DEFINE p == m + 1
             q == m + 2
             r == m + 3
  <2>1. /\ p \in 1 .. N /\ q \in 1 .. N /\ r \in 1 .. N /\ p + 1 = q /\ q + 1 = r
        /\ m + 1 + 2 = r /\ m + 1 + 1 = q /\ m + 2 = q /\ m + 1 = p /\ q <= N /\ r <= N
    BY <1>1
  <2>2. \A y \in B : rank[y] < m => f[q][y] = f[p][y]
    BY <1>15, <2>1
  <2> HIDE DEF p, q, r
  <2>3. f[q] = G[f[p]] /\ f[r] = G[f[q]]
    <3>1. f[p + 1] = G[f[p]]
      BY <1>13, <2>1
    <3>2. f[q + 1] = G[f[q]]
      BY <1>13, <2>1
    <3> QED BY <2>1, <3>1, <3>2
  <2>4. \A y \in B : rank[y] < rank[x] => f[q][y] = f[p][y]
    <3>1. \A y \in B : rank[y] < rank[x] => rank[y] < m
      BY <1>6
    <3> QED BY <2>2, <3>1
  <2>5. f[p] \in Fs /\ f[q] \in Fs
    BY <1>12, <2>1
  <2>6. G[f[q]][x] = G[f[p]][x]
    BY <1>3, <2>4, <2>5
  <2> QED BY <2>1, <2>3, <2>6
<1> HIDE DEF T
<1>16. M + 1 \in T
  <2>1. Nat \subseteq T
    BY <1>14, <1>15, Induct
  <2> QED BY <2>1
<1> DEFINE v == M + 2
           w == M + 3
<1>17. v \in 1 .. N /\ w \in 1 .. N /\ v + 1 = w /\ M + 1 + 2 = w /\ M + 1 + 1 = v /\ w <= N
  BY <1>1
<1>18. \A x \in B : rank[x] < M + 1
  BY <1>6
<1>19. \A x \in B : rank[x] < M + 1 => f[M + 1 + 2][x] = f[M + 1 + 1][x]
  BY <1>16, <1>17 DEF T
<1> HIDE DEF v, w
<1>20. \A x \in B : f[w][x] = f[v][x]
  BY <1>17, <1>18, <1>19
<1>21. f[w] = f[v]
  BY <1>5, <1>12, <1>17, <1>20
<1>22. f[w] = G[f[v]]
  BY <1>13, <1>17
<1>23. f[v] \in [B -> C]
  BY <1>12, <1>17 DEF Fs
<1> QED BY <1>21, <1>22, <1>23

\* The members of s are in the order R; so are those of seqs, one sequence
\* after the other; the members of the first m sequences.
Ordered(s, R) == \A i, j \in 1 .. Len(s) : i < j => <<s[i], s[j]>> \in R
AllOrdered(seqs, R) ==
  /\ \A i \in 1 .. Len(seqs) : Ordered(seqs[i], R)
  /\ \A i, j \in 1 .. Len(seqs) : i < j =>
       \A x \in ToSet(seqs[i]), y \in ToSet(seqs[j]) : <<x, y>> \in R
Pieces(seqs, m) == UNION {ToSet(seqs[i]) : i \in 1 .. m}

\* Two ordered sequences one after the other.
LEMMA ConcatOrdered ==
  \A S, R : \A s, t \in Seq(S) :
    /\ Ordered(s, R) /\ Ordered(t, R)
    /\ \A x \in ToSet(s), y \in ToSet(t) : <<x, y>> \in R
    => Ordered(s \o t, R)
<1> SUFFICES ASSUME NEW S, NEW R, NEW s \in Seq(S), NEW t \in Seq(S), Ordered(s, R), Ordered(t, R),
                    \A x \in ToSet(s), y \in ToSet(t) : <<x, y>> \in R,
                    NEW i \in 1 .. Len(s \o t), NEW j \in 1 .. Len(s \o t), i < j
             PROVE  <<(s \o t)[i], (s \o t)[j]>> \in R
  BY DEF Ordered
<1> DEFINE c == s \o t
           l == Len(s)
           m == Len(t)
<1>1. /\ Len(c) = l + m /\ l \in Nat /\ m \in Nat
      /\ \A e \in 1 .. l + m : c[e] = IF e <= l THEN s[e] ELSE t[e - l]
  BY ConcatProperties
<1>2. (\A e \in 1 .. l : s[e] \in ToSet(s)) /\ (\A e \in 1 .. m : t[e] \in ToSet(t))
  BY DEF ToSet
<1>3. i \in 1 .. l + m /\ j \in 1 .. l + m
  BY <1>1
<1> HIDE DEF c
<1>4. CASE j <= l
  <2>1. i \in 1 .. l /\ j \in 1 .. l /\ c[i] = s[i] /\ c[j] = s[j]
    BY <1>1, <1>3, <1>4
  <2> QED BY <2>1 DEF Ordered, c
<1>5. CASE i <= l /\ ~ (j <= l)
  <2>1. i \in 1 .. l /\ j - l \in 1 .. m /\ c[i] = s[i] /\ c[j] = t[j - l]
    BY <1>1, <1>3, <1>5
  <2> QED BY <1>2, <2>1 DEF c
<1>6. CASE ~ (i <= l)
  <2>1. i - l \in 1 .. m /\ j - l \in 1 .. m /\ i - l < j - l /\ c[i] = t[i - l] /\ c[j] = t[j - l]
    BY <1>1, <1>3, <1>6
  <2> QED BY <2>1 DEF Ordered, c
<1> QED BY <1>1, <1>3, <1>4, <1>5, <1>6

\* The members of one sequence more.
LEMMA MorePieces ==
  \A seqs : \A m \in Nat : Pieces(seqs, m + 1) = Pieces(seqs, m) \union ToSet(seqs[m + 1])
<1> SUFFICES ASSUME NEW seqs, NEW m \in Nat
             PROVE  Pieces(seqs, m + 1) = Pieces(seqs, m) \union ToSet(seqs[m + 1])
  OBVIOUS
<1>1. \A i : i \in 1 .. m + 1 <=> i \in 1 .. m \/ i = m + 1
  OBVIOUS
<1> QED BY <1>1 DEF Pieces

\* FlattenSeq of sequences over S is a sequence over S that has their
\* members in their order.
LEMMA FlattenIs ==
  ASSUME NEW S, NEW R, NEW seqs \in Seq(Seq(S)), AllOrdered(seqs, R)
  PROVE  /\ FlattenSeq(seqs) \in Seq(S) /\ Ordered(FlattenSeq(seqs), R)
         /\ ToSet(FlattenSeq(seqs)) = Pieces(seqs, Len(seqs))
<1>1. CASE Len(seqs) = 0
  <2>1. seqs = << >>
    BY <1>1, EmptySeq
  <2>2. FlattenSeq(seqs) = << >>
    BY <1>1, <2>1 DEF FlattenSeq
  <2>3. << >> \in Seq(S) /\ Ordered(<< >>, R)
    BY DEF Ordered
  <2>4. Pieces(seqs, Len(seqs)) = {}
    BY <1>1 DEF Pieces
  <2> QED BY <2>2, <2>3, <2>4, FewMembers
<1>2. CASE Len(seqs) # 0
  <2> DEFINE N == Len(seqs)
             F(i) == {x \in Seq(S) : Ordered(x, R) /\ ToSet(x) = Pieces(seqs, i)}
             D == [i \in 1 .. N |-> F(i)]
             G == [i \in 1 .. N |-> [x \in Seq(S) |-> x \o seqs[i + 1]]]
             P(f) == f = [i \in 1 .. N |-> IF i = 1 THEN seqs[i] ELSE f[i - 1] \o seqs[i]]
             flatten == CHOOSE f : P(f)
  <2>1. N \in Nat \ {0} /\ \A i \in 1 .. N : seqs[i] \in Seq(S)
    BY <1>2
  <2>2. FlattenSeq(seqs) = flatten[N]
    BY <1>2 DEF FlattenSeq
  <2> HIDE DEF N
  <2>3. /\ \A i \in 1 .. N : \A x : x \in D[i] <=> x \in Seq(S) /\ Ordered(x, R) /\ ToSet(x) = Pieces(seqs, i)
        /\ \A i \in 1 .. N : \A x \in Seq(S) : G[i][x] = x \o seqs[i + 1]
    OBVIOUS
  <2>17. /\ \A i \in 1 .. N : Ordered(seqs[i], R)
         /\ \A i, j \in 1 .. N : i < j =>
              \A x \in ToSet(seqs[i]), y \in ToSet(seqs[j]) : <<x, y>> \in R
    BY DEF AllOrdered, N
  <2>18. \A i \in 1 .. N - 1 : \A x \in D[i] : x \o seqs[i + 1] \in D[i + 1]
    <3> SUFFICES ASSUME NEW i \in 1 .. N - 1, NEW x \in D[i] PROVE x \o seqs[i + 1] \in D[i + 1]
      OBVIOUS
    <3> DEFINE y == seqs[i + 1]
    <3>1. i \in 1 .. N /\ i + 1 \in 1 .. N /\ i \in Nat
      BY <2>1
    <3>2. x \in Seq(S) /\ Ordered(x, R) /\ ToSet(x) = Pieces(seqs, i) /\ y \in Seq(S) /\ Ordered(y, R)
      BY <2>1, <2>3, <2>17, <3>1
    <3>3. x \o y \in Seq(S) /\ ToSet(x \o y) = ToSet(x) \union ToSet(y)
      <4> HIDE DEF y
      <4> QED BY <3>2, ConcatMembers
    <3>4. Pieces(seqs, i + 1) = Pieces(seqs, i) \union ToSet(y)
      BY <3>1, MorePieces
    <3>5. \A e \in ToSet(x), f \in ToSet(y) : <<e, f>> \in R
      <4> SUFFICES ASSUME NEW e \in ToSet(x), NEW f \in ToSet(y) PROVE <<e, f>> \in R
        OBVIOUS
      <4>1. PICK j \in 1 .. i : e \in ToSet(seqs[j])
        BY <3>2 DEF Pieces
      <4>2. j \in 1 .. N /\ j < i + 1
        BY <2>1
      <4> QED BY <2>17, <3>1, <4>1, <4>2
    <3> HIDE DEF y
    <3>6. Ordered(x \o y, R)
      BY <3>2, <3>5, ConcatOrdered
    <3>7. x \o y \in D[i + 1]
      BY <2>3, <3>1, <3>2, <3>3, <3>4, <3>6
    <3> QED BY <3>7 DEF y
  <2> HIDE DEF D, G, F
  <2>4. 1 \in 1 .. N
    BY <2>1
  <2>5. \A i \in 1 .. N - 1 : \A x \in D[i] : G[i][x] \in D[i + 1]
    <3> SUFFICES ASSUME NEW i \in 1 .. N - 1, NEW x \in D[i] PROVE G[i][x] \in D[i + 1]
      OBVIOUS
    <3>1. i \in 1 .. N
      BY <2>1
    <3>2. x \in Seq(S)
      BY <2>3, <3>1
    <3>3. x \o seqs[i + 1] \in D[i + 1]
      BY <2>18
    <3> QED BY <2>3, <3>1, <3>2, <3>3
  <2>6. seqs[1] \in D[1]
    <3>1. Pieces(seqs, 1) = ToSet(seqs[1])
      <4>1. 1 .. 1 = {1}
        OBVIOUS
      <4> QED BY <4>1 DEF Pieces
    <3> QED BY <2>1, <2>3, <2>4, <2>17, <3>1
  <2>16. PICK f : Iterated(N, D, G, seqs[1], f)
    BY <2>1, <2>5, <2>6, Iterate
  <2>7. /\ f = [i \in 1 .. N |-> IF i = 1 THEN seqs[1] ELSE G[i - 1][f[i - 1]]]
        /\ \A i \in 1 .. N : f[i] \in D[i]
    BY <2>16 DEF Iterated
  <2>8. \A i \in 1 .. N : i # 1 => G[i - 1][f[i - 1]] = f[i - 1] \o seqs[i]
    <3> SUFFICES ASSUME NEW i \in 1 .. N, i # 1 PROVE G[i - 1][f[i - 1]] = f[i - 1] \o seqs[i]
      OBVIOUS
    <3>1. i - 1 \in 1 .. N /\ i - 1 + 1 = i
      BY <2>1
    <3>2. f[i - 1] \in Seq(S)
      BY <2>3, <2>7, <3>1
    <3> QED BY <2>3, <3>1, <3>2
  <2>9. P(f)
    <3>1. [i \in 1 .. N |-> IF i = 1 THEN seqs[1] ELSE G[i - 1][f[i - 1]]]
          = [i \in 1 .. N |-> IF i = 1 THEN seqs[i] ELSE f[i - 1] \o seqs[i]]
      BY <2>8
    <3> QED BY <2>7, <3>1
  <2>10. flatten = [i \in 1 .. N |-> IF i = 1 THEN seqs[i] ELSE flatten[i - 1] \o seqs[i]]
    BY <2>9, Zenon
  <2> HIDE DEF flatten
  <2>11. \A i \in 1 .. N : flatten[i] = IF i = 1 THEN seqs[i] ELSE flatten[i - 1] \o seqs[i]
    BY <2>10
  <2> DEFINE T == {m \in Nat : m + 1 <= N => flatten[m + 1] \in D[m + 1]}
  <2>12. 0 \in T
    <3>1. flatten[1] = seqs[1] /\ 0 + 1 = 1
      BY <2>4, <2>11
    <3> QED BY <2>6, <3>1
  <2>13. ASSUME NEW m \in Nat, m \in T PROVE m + 1 \in T
    <3> SUFFICES ASSUME m + 1 + 1 <= N PROVE flatten[m + 1 + 1] \in D[m + 1 + 1]
      OBVIOUS
    <3>1. m + 1 <= N /\ m + 1 \in 1 .. N - 1 /\ m + 1 + 1 \in 1 .. N /\ m + 1 + 1 # 1 /\ m + 1 + 1 - 1 = m + 1
      BY <2>1
    <3>2. flatten[m + 1] \in D[m + 1]
      BY <2>13, <3>1
    <3>3. flatten[m + 1 + 1] = flatten[m + 1] \o seqs[m + 1 + 1]
      <4> DEFINE p == m + 1 + 1
      <4>1. p \in 1 .. N /\ p # 1 /\ p - 1 = m + 1
        BY <3>1
      <4> HIDE DEF p
      <4>2. flatten[p] = flatten[p - 1] \o seqs[p]
        BY <2>11, <4>1
      <4> QED BY <4>1, <4>2 DEF p
    <3>4. flatten[m + 1] \o seqs[m + 1 + 1] \in D[m + 1 + 1]
      BY <2>18, <3>1, <3>2
    <3> QED BY <3>3, <3>4
  <2> HIDE DEF T
  <2>14. Nat \subseteq T
    BY <2>12, <2>13, Induct
  <2>15. flatten[N] \in D[N]
    <3>1. N - 1 \in Nat /\ N - 1 + 1 = N /\ N <= N
      BY <2>1
    <3>2. N - 1 \in T
      BY <2>14, <3>1
    <3> QED BY <3>1, <3>2 DEF T
  <2>19. N \in 1 .. N
    BY <2>1
  <2> QED BY <2>2, <2>3, <2>15, <2>19 DEF N
<1> QED BY <1>1, <1>2
=============================================================================
