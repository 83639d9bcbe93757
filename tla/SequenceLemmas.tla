--------------------------- MODULE SequenceLemmas ---------------------------
(***************************************************************************)
(* What the proofs about several components need of numbers and of         *)
(* sequences laid one after the other.                                     *)
(***************************************************************************)
EXTENDS SequencesExt, SequenceTheorems, NaturalsInduction, WellFoundedInduction, TLAPS

\* A nonempty set of numbers has a least one: what holds for the first of them and
\* goes on from each to the next holds for all.
LEMMA LeastNumber ==
  ASSUME NEW T \in SUBSET Nat, T # {}
  PROVE  \E i \in T : \A j \in T : i <= j
<1>1. \E i \in T : \A j \in T : ~ (<<j, i>> \in OpToRel(<, Nat))
  BY NatLessThanWellFounded, WFMin
<1>2. PICK i \in T : \A j \in T : ~ (<<j, i>> \in OpToRel(<, Nat))
  BY <1>1
<1>3. \A j \in T : i \in Nat /\ j \in Nat /\ ~ (j < i)
  BY <1>2 DEF OpToRel
<1> QED
  BY <1>3

\* The first i of the sequences in s, one after the other, for every i up to n.
JoinedTo(s, n, f) == f = [i \in 1..n |-> IF i = 1 THEN s[i] ELSE f[i - 1] \o s[i]]

LEMMA JoinsThereAre ==
  ASSUME NEW s, NEW n \in Nat
  PROVE  \E f : JoinedTo(s, n, f)
<1> DEFINE T == {k \in 0..n : ~ \E f : JoinedTo(s, k, f)}
<1>1. ASSUME NEW m \in T, \A k \in T : m <= k PROVE FALSE
  <2>1. CASE m = 0
    <3>1. JoinedTo(s, 0, [k \in 1..0 |-> s])
      BY DEF JoinedTo
    <3> QED
      BY <2>1, <3>1
  <2>2. CASE m > 0
    <3>1. m \in Nat /\ m - 1 \in 0..n /\ m - 1 \notin T
      BY <1>1, <2>2
    <3>2. PICK g : JoinedTo(s, m - 1, g)
      BY <3>1
    <3> DEFINE h == [k \in 1..m |-> IF k = m THEN (IF m = 1 THEN s[m] ELSE g[m - 1] \o s[m]) ELSE g[k]]
               H(k) == IF k = 1 THEN s[k] ELSE h[k - 1] \o s[k]
    <3>3. ASSUME NEW k \in 1..m PROVE h[k] = H(k)
      <4>1. \A l \in 1..(m - 1) : g[l] = IF l = 1 THEN s[l] ELSE g[l - 1] \o s[l]
        BY <3>2 DEF JoinedTo
      <4>2. CASE k = m
        BY <2>2, <3>1, <4>2
      <4>3. CASE k # m
        <5>1. k \in 1..(m - 1) /\ h[k] = g[k] /\ (k # 1 => k - 1 \in 1..m /\ k - 1 # m)
          BY <2>2, <3>1, <4>3
        <5>2. k # 1 => h[k - 1] = g[k - 1]
          BY <5>1
        <5> QED
          BY <4>1, <5>1, <5>2
      <4> QED
        BY <4>2, <4>3
    <3>4. JoinedTo(s, m, h)
      <4>1. h = [k \in 1..m |-> h[k]]
        OBVIOUS
      <4>2. \A k \in 1..m : h[k] = H(k)
        BY <3>3
      <4> HIDE DEF h
      <4>3. h = [k \in 1..m |-> H(k)]
        BY <4>1, <4>2
      <4> QED
        BY <4>3 DEF JoinedTo
    <3> QED
      BY <3>4
  <2> QED
    BY <1>1, <2>1, <2>2
<1>2. T \in SUBSET Nat
  OBVIOUS
<1>3. T = {}
  <2> HIDE DEF T
  <2> QED
    BY <1>1, <1>2, LeastNumber
<1> QED
  BY <1>3

LEMMA FlatteningJoins ==
  ASSUME NEW s, Len(s) \in Nat
  PROVE  \E f : /\ JoinedTo(s, Len(s), f)
                /\ FlattenSeq(s) = IF Len(s) = 0 THEN s ELSE f[Len(s)]
<1> DEFINE F == CHOOSE f : JoinedTo(s, Len(s), f)
<1>1. JoinedTo(s, Len(s), F)
  BY JoinsThereAre
<1>2. FlattenSeq(s) = IF Len(s) = 0 THEN s ELSE F[Len(s)]
  BY DEF FlattenSeq, JoinedTo
<1> QED
  BY <1>1, <1>2

\* Sequences one after the other are a sequence of what they are of.
LEMMA FlattenedSeq ==
  ASSUME NEW S, NEW n \in Nat, NEW s, s = [i \in 1..n |-> s[i]], \A i \in 1..n : s[i] \in Seq(S)
  PROVE  FlattenSeq(s) \in Seq(S)
<1>1. s \in Seq(Seq(S)) /\ Len(s) = n
  <2>1. s \in [1..n -> Seq(S)]
    OBVIOUS
  <2> QED
    BY <2>1
<1>2. CASE n = 0
  <2>1. s = <<>>
    BY <1>1, <1>2
  <2>2. FlattenSeq(s) = s
    BY <1>1, <1>2 DEF FlattenSeq
  <2>3. <<>> \in Seq(S)
    OBVIOUS
  <2> QED
    BY <2>1, <2>2, <2>3, Zenon
<1>3. CASE n > 0
  <2> DEFINE F == CHOOSE f : JoinedTo(s, n, f)
             T == {k \in 1..n : F[k] \notin Seq(S)}
  <2>1. JoinedTo(s, n, F)
    BY JoinsThereAre
  <2>2. FlattenSeq(s) = F[n]
    BY <1>1, <1>3 DEF FlattenSeq, JoinedTo
  <2> HIDE DEF F
  <2>3. ASSUME NEW m \in T, \A k \in T : m <= k PROVE FALSE
    <3>1. m \in 1..n /\ F[m] = IF m = 1 THEN s[m] ELSE F[m - 1] \o s[m]
      BY <2>1 DEF JoinedTo
    <3>2. CASE m = 1
      BY <3>1, <3>2
    <3>3. CASE m > 1
      <4>1. m - 1 \in 1..n /\ m - 1 \notin T
        BY <2>3, <3>1, <3>3
      <4>2. F[m - 1] \in Seq(S) /\ s[m] \in Seq(S)
        BY <3>1, <4>1
      <4>3. F[m] = F[m - 1] \o s[m]
        BY <3>1, <3>3
      <4>4. F[m] \in Seq(S)
        BY <4>2, <4>3
      <4> QED
        BY <2>3, <4>4
    <3> QED
      BY <3>1, <3>2, <3>3
  <2>4. T \in SUBSET Nat
    OBVIOUS
  <2>5. T = {}
    <3> HIDE DEF T
    <3> QED
      BY <2>3, <2>4, LeastNumber
  <2> QED
    BY <1>3, <2>2, <2>5
<1> QED
  BY <1>2, <1>3

-----------------------------------------------------------------------------
(* Sequences laid one after the other. *)

\* Where the sequences in s lie when they are laid one after the other: the i-th
\* begins after off[i - 1] and ends at off[i].
Lies(f, s, off, n) ==
  /\ off \in [0..n -> Nat] /\ off[0] = 0 /\ Len(f) = off[n]
  /\ \A i \in 1..n : off[i] = off[i - 1] + Len(s[i])
  /\ \A i \in 1..n : \A t \in 1..Len(s[i]) :
       off[i - 1] + t \in 1..off[n] /\ f[off[i - 1] + t] = s[i][t]
  /\ \A x \in 1..off[n] : \E i \in 1..n : \E t \in 1..Len(s[i]) : x = off[i - 1] + t

LEMMA LaidOnce ==
  ASSUME NEW S, NEW n \in Nat, NEW s \in [1..(n + 1) -> Seq(S)], NEW off \in [0..(n + 1) -> Nat],
         NEW f \in Seq(S), Lies(f, s, [k \in 0..n |-> off[k]], n),
         off[n + 1] = off[n] + Len(s[n + 1])
  PROVE  Lies(f \o s[n + 1], s, off, n + 1)
<1> DEFINE g == f \o s[n + 1]
           low == [k \in 0..n |-> off[k]]
<1>1. /\ s[n + 1] \in Seq(S) /\ Len(s[n + 1]) \in Nat /\ n + 1 \in 1..(n + 1)
      /\ off[n] \in Nat /\ off[n + 1] \in Nat /\ off[0] \in Nat
  OBVIOUS
<1>2. /\ low[0] = 0 /\ Len(f) = low[n] /\ \A k \in 0..n : low[k] = off[k]
      /\ \A i \in 1..n : low[i] = low[i - 1] + Len(s[i])
      /\ \A i \in 1..n : \A t \in 1..Len(s[i]) :
           low[i - 1] + t \in 1..low[n] /\ f[low[i - 1] + t] = s[i][t]
      /\ \A x \in 1..low[n] : \E i \in 1..n : \E t \in 1..Len(s[i]) : x = low[i - 1] + t
  BY DEF Lies
<1>3. /\ off[0] = 0 /\ Len(f) = off[n]
      /\ \A i \in 1..n : low[i] = off[i] /\ low[i - 1] = off[i - 1] /\ i - 1 \in 0..n
  BY <1>2
<1> HIDE DEF low
<1>4. Len(g) = off[n + 1] /\ (\A x \in 1..off[n] : g[x] = f[x])
      /\ \A t \in 1..Len(s[n + 1]) : g[off[n] + t] = s[n + 1][t]
  <2> DEFINE e == s[n + 1]
  <2>1. e \in Seq(S) /\ Len(f) = off[n] /\ Len(f) \in Nat
    BY <1>1, <1>3
  <2> HIDE DEF e
  <2>2. Len(f \o e) = Len(f) + Len(e) /\ (\A x \in 1..Len(f) : (f \o e)[x] = f[x])
    <3>1. f \in Seq(S) /\ e \in Seq(S) /\ Len(e) \in Nat
      BY <2>1
    <3>2. Len(f \o e) = Len(f) + Len(e)
      BY <3>1, ConcatProperties, Zenon
    <3>3. \A i \in 1..(Len(f) + Len(e)) :
            (f \o e)[i] = IF i <= Len(f) THEN f[i] ELSE e[i - Len(f)]
      BY <3>1, ConcatProperties, Zenon
    <3> DEFINE h == f \o e
    <3> HIDE DEF h
    <3>4. \A x \in 1..Len(f) : h[x] = f[x]
      BY <2>1, <3>1, <3>3 DEF h
    <3> QED
      BY <3>2, <3>4 DEF h
  <2>3. \A t \in 1..Len(e) : (f \o e)[Len(f) + t] = e[t]
    <3>1. f \in Seq(S) /\ e \in Seq(S) /\ Len(e) \in Nat
      BY <2>1
    <3>2. \A i \in 1..(Len(f) + Len(e)) :
            (f \o e)[i] = IF i <= Len(f) THEN f[i] ELSE e[i - Len(f)]
      BY <3>1, ConcatProperties, Zenon
    <3> DEFINE h == f \o e
    <3> HIDE DEF h
    <3>3. \A t \in 1..Len(e) : h[Len(f) + t] = e[t]
      BY <2>1, <3>1, <3>2 DEF h
    <3> QED
      BY <3>3 DEF h
  <2> QED
    BY <1>1, <2>1, <2>2, <2>3 DEF e
<1>5. \A i \in 1..(n + 1) : off[i] = off[i - 1] + Len(s[i])
  <2> TAKE i \in 1..(n + 1)
  <2>1. CASE i \in 1..n
    BY <2>1, <1>2, <1>3
  <2>2. CASE i = n + 1
    BY <2>2
  <2> QED
    BY <2>1, <2>2
<1>6. ASSUME NEW i \in 1..(n + 1), NEW t \in 1..Len(s[i])
      PROVE  off[i - 1] + t \in 1..off[n + 1] /\ g[off[i - 1] + t] = s[i][t]
  <2>1. CASE i \in 1..n
    <3>1. low[i - 1] + t \in 1..low[n] /\ f[low[i - 1] + t] = s[i][t]
      BY <2>1, <1>2
    <3>2. low[i - 1] = off[i - 1] /\ low[n] = off[n]
      BY <2>1, <1>2, <1>3
    <3>3. off[i - 1] + t \in 1..off[n] /\ f[off[i - 1] + t] = s[i][t]
      BY <3>1, <3>2
    <3>4. \A x \in 1..off[n] : x \in 1..off[n + 1] /\ g[x] = f[x]
      BY <1>1, <1>4
    <3> HIDE DEF g
    <3> QED
      BY <3>3, <3>4
  <2>2. CASE i = n + 1
    <3>1. i - 1 = n /\ t \in 1..Len(s[n + 1])
      BY <2>2
    <3>2. off[n] + t \in 1..off[n + 1] /\ g[off[n] + t] = s[n + 1][t]
      BY <3>1, <1>1, <1>4
    <3> QED
      BY <2>2, <3>1, <3>2
  <2>3. i \in 1..n \/ i = n + 1
    OBVIOUS
  <2> HIDE DEF g
  <2> QED
    BY <2>1, <2>2, <2>3
<1>7. ASSUME NEW x \in 1..off[n + 1]
      PROVE  \E i \in 1..(n + 1) : \E t \in 1..Len(s[i]) : x = off[i - 1] + t
  <2>1. CASE x \in 1..off[n]
    <3>1. PICK i \in 1..n : \E t \in 1..Len(s[i]) : x = low[i - 1] + t
      BY <2>1, <1>2, <1>3
    <3>2. i \in 1..(n + 1)
      OBVIOUS
    <3>3. low[i - 1] = off[i - 1]
      BY <1>3
    <3> QED
      BY <3>1, <3>2, <3>3
  <2>2. CASE x > off[n]
    <3>1. x - off[n] \in 1..Len(s[n + 1]) /\ x = off[n] + (x - off[n]) /\ (n + 1) - 1 = n
      BY <2>2, <1>1
    <3> QED
      BY <3>1, <1>1
  <2> QED
    BY <2>1, <2>2, <1>1
<1> QED
  BY <1>3, <1>4, <1>5, <1>6, <1>7 DEF Lies

LEMMA LaidAlike ==
  ASSUME NEW n \in Nat, NEW f, NEW s, NEW r, NEW off, Lies(f, s, off, n),
         \A i \in 1..n : r[i] = s[i]
  PROVE  Lies(f, r, off, n)
<1>1. \A i \in 1..n : Len(r[i]) = Len(s[i]) /\ 1..Len(r[i]) = 1..Len(s[i])
  OBVIOUS
<1>2. \A i \in 1..n : off[i] = off[i - 1] + Len(r[i])
  BY <1>1 DEF Lies
<1>3. ASSUME NEW i \in 1..n, NEW t \in 1..Len(r[i])
      PROVE  off[i - 1] + t \in 1..off[n] /\ f[off[i - 1] + t] = r[i][t]
  <2>1. t \in 1..Len(s[i]) /\ r[i] = s[i]
    BY <1>1
  <2> QED
    BY <2>1 DEF Lies
<1>4. ASSUME NEW x \in 1..off[n] PROVE \E i \in 1..n : \E t \in 1..Len(r[i]) : x = off[i - 1] + t
  <2>1. PICK i \in 1..n : \E t \in 1..Len(s[i]) : x = off[i - 1] + t
    BY DEF Lies
  <2>2. \E t \in 1..Len(r[i]) : x = off[i - 1] + t
    BY <2>1, <1>1
  <2> QED
    BY <2>2
<1> QED
  BY <1>2, <1>3, <1>4 DEF Lies

\* Sequences one after the other: each member of each is where it belongs.
LEMMA FlattenedPlaces ==
  ASSUME NEW S, NEW n \in Nat, NEW s \in [1..n -> Seq(S)]
  PROVE  FlattenSeq(s) \in Seq(S) /\ \E off : Lies(FlattenSeq(s), s, off, n)
<1>1. s \in Seq(Seq(S)) /\ Len(s) = n
  OBVIOUS
<1>2. CASE n = 0
  <2>1. s = <<>>
    BY <1>1, <1>2
  <2>2. FlattenSeq(s) = s
    BY <1>1, <1>2 DEF FlattenSeq
  <2>3. <<>> \in Seq(S)
    OBVIOUS
  <2>4. Lies(<<>>, s, [k \in 0..0 |-> 0], 0)
    BY DEF Lies
  <2> QED
    BY <1>2, <2>1, <2>2, <2>3, <2>4, Zenon
<1>3. CASE n > 0
  <2> DEFINE F == CHOOSE f : JoinedTo(s, n, f)
             off == [k \in 0..n |-> IF k = 0 THEN 0 ELSE Len(F[k])]
             Good(k) == F[k] \in Seq(S) /\ Lies(F[k], s, [l \in 0..k |-> off[l]], k)
             T == {k \in 1..n : ~Good(k)}
  <2>1. JoinedTo(s, n, F)
    BY JoinsThereAre
  <2>2. FlattenSeq(s) = F[n]
    BY <1>1, <1>3 DEF FlattenSeq, JoinedTo
  <2> HIDE DEF F, Good
  <2>3. ASSUME NEW m \in T, \A k \in T : m <= k PROVE FALSE
    <3>1. m \in 1..n /\ F[m] = IF m = 1 THEN s[m] ELSE F[m - 1] \o s[m]
      BY <2>1 DEF JoinedTo
    <3>2. ASSUME NEW f \in Seq(S), F[m] = f \o s[m], Lies(f, s, [l \in 0..(m - 1) |-> off[l]], m - 1)
          PROVE  FALSE
      <4>1. m - 1 \in Nat /\ s[m] \in Seq(S) /\ (m - 1) + 1 = m
        BY <3>1
      <4>2. F[m] \in Seq(S) /\ Len(F[m]) = Len(f) + Len(s[m]) /\ Len(F[m]) \in Nat
        BY <3>2, <4>1
      <4>3. \A k \in 1..(m - 1) : F[k] \in Seq(S)
        <5>1. \A k \in 1..(m - 1) : k \in 1..n /\ Good(k)
          BY <2>3, <3>1
        <5> QED
          BY <5>1 DEF Good
      <4> DEFINE o == [l \in 0..m |-> off[l]]
                 r == [i \in 1..m |-> s[i]]
                 p == [l \in 0..(m - 1) |-> off[l]]
      <4>4. \A l \in 0..m : off[l] \in Nat
        BY <3>1, <4>2, <4>3
      <4>5. o \in [0..((m - 1) + 1) -> Nat] /\ r \in [1..((m - 1) + 1) -> Seq(S)] /\ r[m] = s[m]
        BY <3>1, <4>1, <4>4
      <4>6. p = [l \in 0..(m - 1) |-> o[l]] /\ o[m] = Len(F[m]) /\ p[m - 1] = o[m - 1]
        <5>1. m \in 0..m /\ m \in 0..n /\ m # 0 /\ m - 1 \in 0..m /\ m - 1 \in 0..(m - 1)
          BY <3>1
        <5>2. o[m] = off[m] /\ off[m] = Len(F[m]) /\ p[m - 1] = off[m - 1] /\ o[m - 1] = off[m - 1]
          BY <5>1
        <5>3. \A l \in 0..(m - 1) : l \in 0..m
          BY <3>1
        <5>4. p = [l \in 0..(m - 1) |-> o[l]]
          BY <5>3
        <5> QED
          BY <5>2, <5>4
      <4>7. Lies(f, r, p, m - 1)
        <5>1. \A i \in 1..(m - 1) : r[i] = s[i]
          OBVIOUS
        <5>2. Lies(f, s, p, m - 1)
          BY <3>2
        <5> HIDE DEF r, p, o
        <5> QED
          BY <4>1, <5>1, <5>2, LaidAlike
      <4>8. Len(f) = o[m - 1]
        BY <4>6, <4>7 DEF Lies
      <4>9. Lies(f \o r[(m - 1) + 1], r, o, (m - 1) + 1)
        <5> HIDE DEF o, r, p
        <5> QED
          BY <4>1, <4>2, <4>5, <4>6, <4>7, <4>8, LaidOnce
      <4>10. Lies(F[m], s, o, m)
        <5>1. \A i \in 1..m : r[i] = s[i]
          OBVIOUS
        <5>2. Lies(F[m], r, o, m)
          BY <3>2, <4>1, <4>5, <4>9
        <5> HIDE DEF r, o, p
        <5>3. m \in Nat /\ \A i \in 1..m : s[i] = r[i]
          BY <3>1, <5>1
        <5> QED
          BY <5>2, <5>3, LaidAlike
      <4> QED
        BY <2>3, <4>2, <4>10 DEF Good
    <3>3. CASE m = 1
      <4>1. <<>> \in Seq(S) /\ F[m] = <<>> \o s[m]
        BY <3>1, <3>3
      <4>2. Lies(<<>>, s, [l \in 0..0 |-> off[l]], 0)
        BY DEF Lies
      <4>3. m - 1 = 0
        BY <3>3
      <4> HIDE DEF off
      <4> QED
        BY <3>2, <3>3, <4>1, <4>2, <4>3
    <3>4. CASE m > 1
      <4>1. m - 1 \in 1..n /\ ~(m <= m - 1)
        BY <3>1, <3>4
      <4>2. Good(m - 1)
        BY <2>3, <4>1
      <4>3. F[m] = F[m - 1] \o s[m]
        BY <3>1, <3>4
      <4> QED
        BY <3>2, <4>2, <4>3 DEF Good
    <3> QED
      BY <3>1, <3>3, <3>4
  <2>4. T \in SUBSET Nat
    OBVIOUS
  <2>5. T = {}
    <3> HIDE DEF T
    <3> QED
      BY <2>3, <2>4, LeastNumber
  <2>6. Good(n)
    <3>1. n \in 1..n
      BY <1>3
    <3> QED
      BY <2>5, <3>1
  <2> QED
    BY <2>2, <2>6 DEF Good
<1> QED
  BY <1>2, <1>3

\* Nothing is left of sequences one after the other just when all are empty.
LEMMA FlattenedEmpty ==
  ASSUME NEW S, NEW n \in Nat, NEW s \in [1..n -> Seq(S)]
  PROVE  /\ FlattenSeq(s) \in Seq(S)
         /\ FlattenSeq(s) = <<>> <=> \A i \in 1..n : s[i] = <<>>
<1> DEFINE f == FlattenSeq(s)
<1>1. f \in Seq(S) /\ \E off : Lies(f, s, off, n)
  BY FlattenedPlaces
<1>2. PICK off : Lies(f, s, off, n)
  BY <1>1
<1> HIDE DEF f
<1>3. off[n] = Len(f) /\ Len(f) \in Nat
  BY <1>1, <1>2 DEF Lies
<1>4. ASSUME f = <<>>, NEW i \in 1..n PROVE s[i] = <<>>
  <2>1. \A t \in 1..Len(s[i]) : off[i - 1] + t \in 1..off[n]
    BY <1>2 DEF Lies
  <2>2. 1..off[n] = {}
    BY <1>3, <1>4
  <2>3. Len(s[i]) \in Nat /\ s[i] \in Seq(S)
    OBVIOUS
  <2>4. ~ (1 \in 1..Len(s[i]))
    BY <2>1, <2>2
  <2> QED
    BY <2>3, <2>4
<1>5. ASSUME \A i \in 1..n : s[i] = <<>> PROVE f = <<>>
  <2>1. \A x \in 1..off[n] : \E i \in 1..n : \E t \in 1..Len(s[i]) : x = off[i - 1] + t
    BY <1>2 DEF Lies
  <2>2. \A i \in 1..n : 1..Len(s[i]) = {}
    BY <1>5
  <2>3. ~ (1 \in 1..off[n])
    BY <2>1, <2>2
  <2> QED
    BY <1>1, <1>3, <2>3
<1> QED
  BY <1>1, <1>4, <1>5 DEF f
=============================================================================
