--------------------------- MODULE ParallelProofs ---------------------------
(***************************************************************************)
(* Proofs about Parallel: whatever the leaves, the workers and the depth   *)
(* of the channels, and however the workers and the stream interleave, the *)
(* parallel path hands out the rows of the serial one.                     *)
(***************************************************************************)
EXTENDS Parallel, SequenceTheorems, WellFoundedInduction, TLAPS

-----------------------------------------------------------------------------
(* Induction and flattening *)

\* The library's induction principles take an operator; this one takes a set.
LEMMA SetInduction ==
  ASSUME NEW S, 0 \in S, \A n \in Nat : n \in S => n + 1 \in S
  PROVE  Nat \subseteq S
<1> SUFFICES ASSUME Nat \ S # {} PROVE FALSE
  OBVIOUS
<1>1. IsWellFoundedOn({p \in Nat \X Nat : p[1] < p[2]}, Nat)
  BY NatLessThanWellFounded, Zenon DEF OpToRel
<1>2. PICK n \in Nat \ S : \A k \in Nat \ S : ~(<<k, n>> \in {p \in Nat \X Nat : p[1] < p[2]})
  BY <1>1, WFMin, Zenon
<1>3. n # 0 /\ n \in Nat /\ n \notin S
  BY <1>2
<1>4. n - 1 \in Nat /\ n - 1 < n
  BY <1>3
<1>5. n - 1 \in S
  <2>1. <<n - 1, n>> \in {p \in Nat \X Nat : p[1] < p[2]}
    BY <1>3, <1>4
  <2> QED
    BY <1>2, <1>4, <2>1
<1>6. (n - 1) + 1 \in S
  BY <1>4, <1>5
<1> QED
  BY <1>3, <1>6

\* The prefixes of a flattening, one sequence longer each time.
IsFlattening(g, ss) ==
    /\ g[0] = <<>>
    /\ \A i \in 1..Len(ss) : g[i] = g[i - 1] \o ss[i]

LEMMA FlatteningExists ==
  ASSUME NEW X, NEW ss \in Seq(Seq(X))
  PROVE  \E g \in [0..Len(ss) -> Seq(X)] : IsFlattening(g, ss)
<1> DEFINE Good(n) == \E g \in [0..n -> Seq(X)] :
                        g[0] = <<>> /\ \A i \in 1..n : g[i] = g[i - 1] \o ss[i]
           S == {n \in Nat : n <= Len(ss) => Good(n)}
<1>1. Len(ss) \in Nat /\ \A i \in 1..Len(ss) : ss[i] \in Seq(X)
  BY ElementOfSeq, LenProperties, Zenon
<1>2. 0 \in S
  <2>1. <<>> \in Seq(X)
    BY EmptySeq, Zenon
  <2> DEFINE g == [i \in 0..0 |-> <<>>]
  <2>2. g \in [0..0 -> Seq(X)] /\ g[0] = <<>>
    <3>1. 0 \in 0..0
      OBVIOUS
    <3> QED
      BY <2>1, <3>1, Zenon
  <2>3. 1..0 = {}
    OBVIOUS
  <2>4. Good(0)
    BY <2>2, <2>3, Zenon
  <2> QED
    BY <2>4, Zenon
<1>3. ASSUME NEW n \in Nat, n \in S, n + 1 <= Len(ss) PROVE Good(n + 1)
  <2>0. n <= Len(ss)
    BY <1>1, <1>3
  <2>1. PICK g \in [0..n -> Seq(X)] : g[0] = <<>> /\ \A i \in 1..n : g[i] = g[i - 1] \o ss[i]
    BY <2>0, <1>3, Zenon
  <2> DEFINE last == g[n] \o ss[n + 1]
             h == [i \in 0..(n + 1) |-> IF i = n + 1 THEN last ELSE g[i]]
  <2>2. g[n] \in Seq(X) /\ ss[n + 1] \in Seq(X)
    <3>1. n \in 0..n /\ n + 1 \in 1..Len(ss)
      BY <1>1, <1>3
    <3> QED
      BY <1>1, <2>1, <3>1, Zenon
  <2>3. last \in Seq(X)
    BY <2>2, ConcatProperties, Zenon
  <2>4. /\ h[n + 1] = last /\ \A i \in 0..n : h[i] = g[i]
        /\ n + 1 \in 0..(n + 1) /\ n + 1 \notin 0..n /\ 0..n \subseteq 0..(n + 1)
        /\ \A i \in 0..(n + 1) : i \in 0..n \/ i = n + 1
    <3> HIDE DEF last
    <3> QED
      OBVIOUS
  <2>5. h \in [0..(n + 1) -> Seq(X)]
    BY <2>1, <2>3, <2>4, Zenon
  <2>6. h[0] = <<>>
    <3>1. 0 \in 0..n
      OBVIOUS
    <3> QED
      BY <2>1, <2>4, <3>1, Zenon
  <2>7. ASSUME NEW i \in 1..(n + 1) PROVE h[i] = h[i - 1] \o ss[i]
    <3>1. CASE i = n + 1
      <4>1. i - 1 = n /\ n \in 0..n
        BY <3>1
      <4> QED
        BY <2>4, <3>1, <4>1, Zenon
    <3>2. CASE i \in 1..n
      <4>1. i - 1 \in 0..n /\ i \in 0..n
        BY <3>2
      <4> QED
        BY <2>1, <2>4, <3>2, <4>1, Zenon
    <3>3. i \in 1..n \/ i = n + 1
      OBVIOUS
    <3> QED
      BY <3>1, <3>2, <3>3, Zenon
  <2> HIDE DEF h
  <2> QED
    BY <2>5, <2>6, <2>7, Zenon
<1>4. \A n \in Nat : n \in S => n + 1 \in S
  <2> SUFFICES ASSUME NEW n \in Nat, n \in S PROVE n + 1 \in S
    OBVIOUS
  <2>1. n + 1 \in Nat
    OBVIOUS
  <2>2. n + 1 <= Len(ss) => Good(n + 1)
    BY <1>3, Zenon
  <2> QED
    BY <2>1, <2>2, Zenon
<1>5. Nat \subseteq S
  <2> HIDE DEF S
  <2> QED
    BY <1>2, <1>4, SetInduction, Zenon
<1>6. Len(ss) \in S
  BY <1>1, <1>5, Zenon
<1>7. Len(ss) <= Len(ss)
  BY <1>1
<1>8. Good(Len(ss))
  BY <1>6, <1>7, Zenon
<1> QED
  BY <1>8, Zenon DEF IsFlattening

\* FlattenSeq gives the last of them.
LEMMA FlattenIs ==
  ASSUME NEW X, NEW ss \in Seq(Seq(X)), NEW g \in [0..Len(ss) -> Seq(X)], IsFlattening(g, ss)
  PROVE  FlattenSeq(ss) = g[Len(ss)]
<1> DEFINE N == Len(ss)
<1>1. N \in Nat /\ \A i \in 1..N : ss[i] \in Seq(X)
  BY ElementOfSeq, LenProperties, Zenon
<1>2. CASE N = 0
  <2>1. ss = <<>>
    BY <1>2, EmptySeq
  <2>2. g[0] = <<>>
    BY Zenon DEF IsFlattening
  <2> QED
    BY <1>2, <2>1, <2>2, Zenon DEF FlattenSeq
<1>3. CASE N # 0
  <2> DEFINE Grow(f) == [i \in 1..N |-> IF i = 1 THEN ss[i] ELSE f[i - 1] \o ss[i]]
             f == CHOOSE h : h = Grow(h)
             h0 == [i \in 1..N |-> g[i]]
  <2>1. h0 = Grow(h0)
    <3>1. ASSUME NEW i \in 1..N PROVE g[i] = IF i = 1 THEN ss[i] ELSE h0[i - 1] \o ss[i]
      <4>1. g[i] = g[i - 1] \o ss[i]
        BY Zenon DEF IsFlattening
      <4>2. CASE i = 1
        <5>1. i - 1 = 0
          BY <4>2
        <5>3. g[i - 1] = <<>>
          BY <5>1, Zenon DEF IsFlattening
        <5>2. <<>> \o ss[i] = ss[i]
          BY <1>1, ConcatEmptySeq, Zenon
        <5> QED
          BY <4>1, <4>2, <5>2, <5>3, Zenon
      <4>3. CASE i # 1
        <5>1. i - 1 \in 1..N
          BY <1>1, <4>3
        <5> QED
          BY <4>1, <4>3, <5>1, Zenon
      <4> QED
        BY <4>2, <4>3, Zenon
    <3> QED
      BY <3>1, Zenon
  <2>2. f = Grow(f)
    <3> HIDE DEF Grow, h0
    <3> QED
      BY <2>1, Zenon
  <2>3. \A i \in 1..N : f[i] = IF i = 1 THEN ss[i] ELSE f[i - 1] \o ss[i]
    BY <2>2, Zenon
  <2>4. FlattenSeq(ss) = f[N]
    BY <1>3, Zenon DEF FlattenSeq
  <2> HIDE DEF f, Grow, h0
  <2> DEFINE S == {n \in Nat : n \in 1..N => f[n] = g[n]}
  <2>5. 0 \in S
    OBVIOUS
  <2>6. ASSUME NEW n \in Nat, n \in S PROVE n + 1 \in S
    <3>1. SUFFICES ASSUME n + 1 \in 1..N PROVE f[n + 1] = g[n + 1]
      <4>1. n + 1 \in Nat
        OBVIOUS
      <4> QED
        BY <4>1, Zenon
    <3>2. g[n + 1] = g[(n + 1) - 1] \o ss[n + 1]
      BY <3>1, Zenon DEF IsFlattening
    <3>3. (n + 1) - 1 = n
      OBVIOUS
    <3>4. CASE n = 0
      <4>1. n + 1 = 1
        BY <3>4
      <4>3. g[(n + 1) - 1] = <<>>
        BY <3>3, <3>4, Zenon DEF IsFlattening
      <4>2. <<>> \o ss[n + 1] = ss[n + 1]
        BY <1>1, <3>1, ConcatEmptySeq, Zenon
      <4> QED
        BY <2>3, <3>1, <3>2, <4>1, <4>2, <4>3, Zenon
    <3>5. CASE n # 0
      <4>1. n \in 1..N /\ n + 1 # 1
        BY <1>1, <3>1, <3>5
      <4>2. f[n] = g[n]
        BY <2>6, <4>1, Zenon
      <4> QED
        BY <2>3, <3>1, <3>2, <3>3, <4>1, <4>2, Zenon
    <3> QED
      BY <3>4, <3>5, Zenon
  <2>7. Nat \subseteq S
    <3> HIDE DEF S
    <3> QED
      BY <2>5, <2>6, SetInduction, Zenon
  <2>8. N \in S /\ N \in 1..N
    BY <1>1, <1>3, <2>7
  <2> QED
    BY <2>4, <2>8, Zenon
<1> QED
  BY <1>2, <1>3, Zenon

\* What the first n sequences of ss come to, and how long that is.
Flat(ss, n) == FlattenSeq(SubSeq(ss, 1, n))
Offset(ss, n) == Len(Flat(ss, n))

LEMMA FlatIs ==
  ASSUME NEW X, NEW ss \in Seq(Seq(X)), NEW g \in [0..Len(ss) -> Seq(X)], IsFlattening(g, ss),
         NEW n \in 0..Len(ss)
  PROVE  Flat(ss, n) = g[n]
<1> DEFINE pre == SubSeq(ss, 1, n)
           h == [i \in 0..n |-> g[i]]
<1>1. Len(ss) \in Nat /\ n \in Nat /\ n <= Len(ss) /\ 0..n \subseteq 0..Len(ss)
  <2>1. Len(ss) \in Nat
    BY LenProperties, Zenon
  <2> QED
    BY <2>1
<1>2. pre \in Seq(Seq(X)) /\ Len(pre) = n /\ \A i \in 1..n : pre[i] = ss[i]
  <2>1. \A i \in 1..n : ss[i] \in Seq(X)
    BY <1>1, ElementOfSeq
  <2>2. /\ pre \in Seq(Seq(X)) /\ Len(pre) = IF 1 <= n THEN n - 1 + 1 ELSE 0
        /\ \A i \in 1..(n - 1 + 1) : pre[i] = ss[1 + i - 1]
    BY <1>1, <2>1, SubSeqProperties
  <2>3. n - 1 + 1 = n /\ (~(1 <= n) => n = 0)
    BY <1>1
  <2>4. \A i \in 1..n : 1 + i - 1 = i
    OBVIOUS
  <2> HIDE DEF pre
  <2> QED
    BY <2>2, <2>3, <2>4, Zenon
<1> HIDE DEF pre
<1>3. h \in [0..Len(pre) -> Seq(X)]
  BY <1>1, <1>2, Zenon
<1>4. IsFlattening(h, pre)
  <2>1. h[0] = <<>>
    <3>1. 0 \in 0..n
      BY <1>1
    <3> QED
      BY <3>1, Zenon DEF IsFlattening
  <2>2. ASSUME NEW i \in 1..n PROVE h[i] = h[i - 1] \o pre[i]
    <3>1. i \in 0..n /\ i - 1 \in 0..n /\ i \in 1..Len(ss)
      BY <1>1
    <3>2. g[i] = g[i - 1] \o ss[i]
      BY <3>1, Zenon DEF IsFlattening
    <3> QED
      BY <1>2, <3>1, <3>2, Zenon
  <2> HIDE DEF h
  <2> QED
    BY <1>2, <2>1, <2>2, Zenon DEF IsFlattening
<1>5. FlattenSeq(pre) = h[Len(pre)]
  <2> HIDE DEF h
  <2> QED
    BY <1>2, <1>3, <1>4, FlattenIs, Zenon
<1>6. n \in 0..n
  BY <1>1
<1> QED
  BY <1>2, <1>5, <1>6, Zenon DEF Flat, pre

\* Flattening appends one sequence after the other.
LEMMA FlatSteps ==
  ASSUME NEW X, NEW ss \in Seq(Seq(X))
  PROVE  /\ Len(ss) \in Nat /\ \A n \in 1..Len(ss) : ss[n] \in Seq(X) /\ Len(ss[n]) \in Nat
         /\ \A n \in 0..Len(ss) : Flat(ss, n) \in Seq(X) /\ Offset(ss, n) \in Nat
         /\ Flat(ss, 0) = <<>> /\ Offset(ss, 0) = 0
         /\ FlattenSeq(ss) = Flat(ss, Len(ss))
         /\ \A n \in 1..Len(ss) : /\ Flat(ss, n) = Flat(ss, n - 1) \o ss[n]
                                  /\ Offset(ss, n) = Offset(ss, n - 1) + Len(ss[n])
<1>1. Len(ss) \in Nat /\ \A n \in 1..Len(ss) : ss[n] \in Seq(X) /\ Len(ss[n]) \in Nat
  BY ElementOfSeq, LenProperties, Zenon
<1>2. PICK g \in [0..Len(ss) -> Seq(X)] : IsFlattening(g, ss)
  BY FlatteningExists, Zenon
<1>3. \A n \in 0..Len(ss) : Flat(ss, n) = g[n] /\ g[n] \in Seq(X)
  BY <1>2, FlatIs, Zenon
<1>4. \A n \in 0..Len(ss) : Flat(ss, n) \in Seq(X) /\ Offset(ss, n) \in Nat
  BY <1>3, LenProperties, Zenon DEF Offset
<1>5. 0 \in 0..Len(ss) /\ Len(ss) \in 0..Len(ss)
  BY <1>1
<1>6. Flat(ss, 0) = <<>> /\ Offset(ss, 0) = 0
  <2>1. Flat(ss, 0) = <<>>
    BY <1>2, <1>3, <1>5, Zenon DEF IsFlattening
  <2> QED
    BY <2>1, EmptySeq, Zenon DEF Offset
<1>7. FlattenSeq(ss) = Flat(ss, Len(ss))
  BY <1>2, <1>3, <1>5, FlattenIs, Zenon
<1>8. ASSUME NEW n \in 1..Len(ss)
      PROVE  /\ Flat(ss, n) = Flat(ss, n - 1) \o ss[n]
             /\ Offset(ss, n) = Offset(ss, n - 1) + Len(ss[n])
  <2>1. n \in 0..Len(ss) /\ n - 1 \in 0..Len(ss)
    BY <1>1
  <2>2. g[n] = g[n - 1] \o ss[n]
    BY <1>2, Zenon DEF IsFlattening
  <2>3. Flat(ss, n) = Flat(ss, n - 1) \o ss[n]
    BY <1>3, <2>1, <2>2, Zenon
  <2>4. Flat(ss, n - 1) \in Seq(X) /\ ss[n] \in Seq(X)
    BY <1>1, <1>4, <2>1, Zenon
  <2> QED
    BY <2>3, <2>4, ConcatProperties, Zenon DEF Offset
<1> QED
  BY <1>1, <1>4, <1>6, <1>7, <1>8, Zenon

LEMMA InFront ==
  ASSUME NEW a \in Nat, NEW b \in Nat, NEW i \in 1..a PROVE i \in 1..(a + b) /\ i <= a
  OBVIOUS

\* What the first m sequences come to stays in front.
LEMMA FlatPrefix ==
  ASSUME NEW X, NEW ss \in Seq(Seq(X)), NEW m \in 0..Len(ss), NEW n \in 0..Len(ss), m <= n
  PROVE  /\ Offset(ss, m) <= Offset(ss, n)
         /\ \A i \in 1..Offset(ss, m) : Flat(ss, n)[i] = Flat(ss, m)[i]
<1> DEFINE Keeps(k) == /\ Offset(ss, m) <= Offset(ss, k)
                       /\ \A i \in 1..Offset(ss, m) : Flat(ss, k)[i] = Flat(ss, m)[i]
           S == {d \in Nat : m + d <= Len(ss) => Keeps(m + d)}
<1>1. /\ Len(ss) \in Nat /\ m \in Nat /\ n \in Nat
      /\ \A k \in 0..Len(ss) : Offset(ss, k) \in Nat /\ Flat(ss, k) \in Seq(X)
  <2>1. Len(ss) \in Nat /\ \A k \in 0..Len(ss) : Offset(ss, k) \in Nat /\ Flat(ss, k) \in Seq(X)
    BY FlatSteps, Zenon
  <2> QED
    BY <2>1
<1>2. 0 \in S
  <2>1. m + 0 = m /\ Offset(ss, m) <= Offset(ss, m)
    BY <1>1
  <2> QED
    BY <2>1, Zenon
<1>3. ASSUME NEW d \in Nat, d \in S PROVE d + 1 \in S
  <2> SUFFICES ASSUME m + (d + 1) <= Len(ss) PROVE Keeps(m + (d + 1))
    <3>1. d + 1 \in Nat
      OBVIOUS
    <3> QED
      BY <3>1, Zenon
  <2> DEFINE k == m + d
  <2>1. /\ k \in 0..Len(ss) /\ k + 1 \in 1..Len(ss) /\ (k + 1) - 1 = k /\ m + (d + 1) = k + 1
        /\ m + d <= Len(ss)
    BY <1>1
  <2>2. Keeps(k)
    BY <1>3, <2>1, Zenon
  <2>3. /\ Flat(ss, k + 1) = Flat(ss, k) \o ss[k + 1]
        /\ Offset(ss, k + 1) = Offset(ss, k) + Len(ss[k + 1])
        /\ ss[k + 1] \in Seq(X) /\ Len(ss[k + 1]) \in Nat
    BY <2>1, FlatSteps, Zenon
  <2>4. /\ Offset(ss, k) \in Nat /\ Flat(ss, k) \in Seq(X) /\ Offset(ss, m) \in Nat
        /\ Offset(ss, k) = Len(Flat(ss, k))
    BY <1>1, <2>1, Zenon DEF Offset
  <2>5. \A i \in 1..Offset(ss, k) : Flat(ss, k + 1)[i] = Flat(ss, k)[i]
    <3> TAKE i \in 1..Offset(ss, k)
    <3>1. i \in 1..(Len(Flat(ss, k)) + Len(ss[k + 1])) /\ i <= Len(Flat(ss, k))
      <4> HIDE DEF k
      <4> QED
        BY <2>3, <2>4, InFront, Zenon
    <3>2. (Flat(ss, k) \o ss[k + 1])[i] =
             IF i <= Len(Flat(ss, k)) THEN Flat(ss, k)[i] ELSE ss[k + 1][i - Len(Flat(ss, k))]
      BY <2>3, <2>4, <3>1, ConcatProperties, Zenon
    <3> QED
      BY <2>3, <3>1, <3>2, Zenon
  <2>6. Offset(ss, m) <= Offset(ss, k + 1)
    BY <2>2, <2>3, <2>4
  <2>7. \A i \in 1..Offset(ss, m) : i \in 1..Offset(ss, k)
    BY <2>2, <2>4
  <2>8. Keeps(k + 1)
    BY <2>2, <2>5, <2>6, <2>7, Zenon
  <2> QED
    BY <2>1, <2>8, Zenon
<1>4. Nat \subseteq S
  <2> HIDE DEF S
  <2> QED
    BY <1>2, <1>3, SetInduction, Zenon
<1>5. n - m \in Nat /\ m + (n - m) = n /\ m + (n - m) <= Len(ss)
  BY <1>1
<1>6. n - m \in S
  BY <1>4, <1>5, Zenon
<1>7. Keeps(m + (n - m))
  BY <1>5, <1>6, Zenon
<1> QED
  BY <1>5, <1>7, Zenon

\* Where the elements of the n-th sequence are.
LEMMA FlatBlock ==
  ASSUME NEW X, NEW ss \in Seq(Seq(X)), NEW n \in 1..Len(ss), NEW k \in 1..Len(ss[n])
  PROVE  FlattenSeq(ss)[Offset(ss, n - 1) + k] = ss[n][k]
<1>1. /\ Len(ss) \in Nat /\ ss[n] \in Seq(X) /\ Len(ss[n]) \in Nat
      /\ FlattenSeq(ss) = Flat(ss, Len(ss)) /\ Flat(ss, n) = Flat(ss, n - 1) \o ss[n]
      /\ Offset(ss, n) = Offset(ss, n - 1) + Len(ss[n])
  BY FlatSteps, Zenon
<1>2. n - 1 \in 0..Len(ss) /\ n \in 0..Len(ss) /\ Len(ss) \in 0..Len(ss) /\ n <= Len(ss)
  BY <1>1
<1>3. Flat(ss, n - 1) \in Seq(X) /\ Offset(ss, n - 1) \in Nat
      /\ Offset(ss, n - 1) = Len(Flat(ss, n - 1))
  BY <1>2, FlatSteps, Zenon DEF Offset
<1> DEFINE i == Offset(ss, n - 1) + k
<1>4. /\ i \in 1..Offset(ss, n) /\ ~(i <= Offset(ss, n - 1)) /\ i - Offset(ss, n - 1) = k
  BY <1>1, <1>3
<1>5. Flat(ss, Len(ss))[i] = Flat(ss, n)[i]
  <2> HIDE DEF i
  <2> QED
    BY <1>2, <1>4, FlatPrefix, Zenon
<1>6. Flat(ss, n)[i] = ss[n][k]
  <2> HIDE DEF i
  <2>1. \A j \in 1..(Len(Flat(ss, n - 1)) + Len(ss[n])) :
          (Flat(ss, n - 1) \o ss[n])[j] =
            IF j <= Len(Flat(ss, n - 1)) THEN Flat(ss, n - 1)[j]
            ELSE ss[n][j - Len(Flat(ss, n - 1))]
    BY <1>1, <1>3, ConcatProperties, Zenon
  <2> QED
    BY <1>1, <1>3, <1>4, <2>1, Zenon
<1> QED
  BY <1>1, <1>5, <1>6, Zenon

-----------------------------------------------------------------------------
(* The partition of the table *)

Values == Nat \cup {ErrorRow}
N == Len(AllRows)

\* A set of numbers that is not empty has a smallest member.
LEMMA MinOf ==
  ASSUME NEW S, S \subseteq Nat, S # {}
  PROVE  Min(S) \in S /\ \A x \in S : Min(S) <= x
<1> DEFINE Less == {p \in Nat \X Nat : p[1] < p[2]}
<1>1. IsWellFoundedOn(Less, Nat)
  BY NatLessThanWellFounded, Zenon DEF OpToRel
<1> HIDE DEF Less
<1>2. PICK m \in S : \A y \in S : ~(<<y, m>> \in Less)
  BY <1>1, WFMin
<1>3. ASSUME NEW y \in S PROVE m <= y
  <2>1. y \in Nat /\ m \in Nat /\ (y < m => <<y, m>> \in Less)
    BY DEF Less
  <2> QED
    BY <1>2, <2>1
<1> QED
  BY <1>3 DEF Min

\* Chunks of leaves are numbered from 0.
LEMMA Chunks ==
  ASSUME query \in Queries
  PROVE  /\ query.leaves \in Seq(Seq(Values)) /\ Len(query.leaves) \in Nat \ {0}
         /\ NumWorkers \in 1..MaxWorkers /\ NumWorkers \in 1..Len(query.leaves)
         /\ ChunkSize \in Nat
         /\ Workers \subseteq 0..(NumWorkers - 1) /\ Workers \subseteq AllWorkers
         /\ 0 \in Workers /\ NumWorkers \notin Workers
         /\ \A w \in Workers : w * ChunkSize \in 0..Len(query.leaves)
<1>1. query.leaves \in Seq(Seq(Values)) /\ query.leaves # <<>>
  BY ParallelConstants, Zenon DEF Values
<1>2. Len(query.leaves) \in Nat \ {0}
  BY <1>1, EmptySeq, Zenon
<1>3. {MaxWorkers, Len(query.leaves)} \subseteq Nat
  BY <1>2, ParallelConstants
<1>4. /\ NumWorkers \in {MaxWorkers, Len(query.leaves)}
      /\ NumWorkers <= MaxWorkers /\ NumWorkers <= Len(query.leaves)
  BY <1>3, MinOf DEF NumWorkers
<1>5. NumWorkers \in 1..MaxWorkers /\ NumWorkers \in 1..Len(query.leaves)
  BY <1>2, <1>4, ParallelConstants
<1>6. ChunkSize \in Nat
  <2>1. \A a \in Nat, b \in Nat \ {0} : a \div b \in Nat
    OBVIOUS
  <2>2. Len(query.leaves) + NumWorkers - 1 \in Nat /\ NumWorkers \in Nat \ {0}
    BY <1>2, <1>5
  <2> QED
    BY <2>1, <2>2, Zenon DEF ChunkSize
<1>7. Workers \subseteq 0..(NumWorkers - 1) /\ 0 \in Workers
  BY <1>5 DEF Workers
<1>8. NumWorkers \notin Workers /\ Workers \subseteq AllWorkers
  BY <1>5, <1>7, ParallelConstants DEF AllWorkers
<1>9. ASSUME NEW w \in Workers PROVE w * ChunkSize \in 0..Len(query.leaves)
  <2>1. w * ChunkSize \in Nat
    BY <1>5, <1>6, <1>7
  <2>2. w = 0 \/ w * ChunkSize < Len(query.leaves)
    BY DEF Workers
  <2>3. CASE w = 0
    BY <1>2, <1>6, <2>3
  <2> QED
    BY <1>2, <2>1, <2>2, <2>3
<1> QED
  BY <1>1, <1>2, <1>5, <1>6, <1>7, <1>8, <1>9

\* The rows a range begins and ends with, NumWorkers standing for the end of the table.
Bound(v) == IF v = NumWorkers THEN N + 1 ELSE StartOf(v)

LEMMA NextWorkers ==
  ASSUME query \in Queries, NEW w \in Workers
  PROVE  /\ NextWorker(w) \in Workers \cup {NumWorkers} /\ NextWorker(w) > w
         /\ \A v \in Workers : v > w => v >= NextWorker(w)
         /\ EndOf(w) = Bound(NextWorker(w))
<1> DEFINE Later == {v \in Workers : v > w} \cup {NumWorkers}
<1>1. Later \subseteq Nat /\ NumWorkers \in Later
  BY Chunks
<1>2. NextWorker(w) \in Later /\ \A x \in Later : NextWorker(w) <= x
  <2> HIDE DEF Later
  <2>1. NextWorker(w) = Min(Later)
    BY DEF NextWorker, Later
  <2> QED
    BY <1>1, <2>1, MinOf
<1>3. NumWorkers > w /\ w \in Nat
  BY Chunks
<1>4. Workers \subseteq Nat
  BY Chunks
<1>5. NextWorker(w) \in Nat
  BY <1>1, <1>2
<1>6. EndOf(w) = Bound(NextWorker(w))
  BY DEF EndOf, Bound, N
<1>7. NextWorker(w) \in Workers \cup {NumWorkers} /\ NextWorker(w) > w
  BY <1>2, <1>3
<1>8. ASSUME NEW v \in Workers, v > w PROVE v >= NextWorker(w)
  <2>1. NextWorker(w) <= v /\ v \in Nat
    BY <1>2, <1>4, <1>8
  <2> QED
    BY <1>5, <2>1
<1> QED
  BY <1>6, <1>7, <1>8

\* The rows of the table, and where the leaves begin.
LEMMA Rows ==
  ASSUME query \in Queries
  PROVE  /\ AllRows \in Seq(Values) /\ N \in Nat /\ DOMAIN AllRows = 1..N
         /\ \A r \in 1..N : AllRows[r] \in Values
         /\ \A w \in Workers : StartOf(w) \in 1..(N + 1)
         /\ \A v, w \in Workers : v <= w => StartOf(v) <= StartOf(w)
         /\ StartOf(0) = 1
<1> DEFINE leaves == query.leaves
<1>1. leaves \in Seq(Seq(Values)) /\ Len(leaves) \in Nat \ {0}
  BY Chunks
<1>2. /\ \A n \in 0..Len(leaves) : Flat(leaves, n) \in Seq(Values) /\ Offset(leaves, n) \in Nat
      /\ FlattenSeq(leaves) = Flat(leaves, Len(leaves)) /\ Offset(leaves, 0) = 0
  BY <1>1, FlatSteps, Zenon
<1>3. Len(leaves) \in 0..Len(leaves)
  BY <1>1
<1>4. AllRows \in Seq(Values) /\ N = Offset(leaves, Len(leaves))
  BY <1>2, <1>3, Zenon DEF AllRows, N, Offset
<1>5. N \in Nat /\ DOMAIN AllRows = 1..N /\ \A r \in 1..N : AllRows[r] \in Values
  BY <1>4, LenProperties, ElementOfSeq, Zenon DEF N
<1>6. ASSUME NEW w \in Workers
      PROVE  /\ StartOf(w) = 1 + Offset(leaves, w * ChunkSize)
             /\ w * ChunkSize \in 0..Len(leaves)
  <2>1. w * ChunkSize \in 0..Len(leaves) /\ w * ChunkSize \in Int
    BY Chunks
  <2>2. (w * ChunkSize + 1) - 1 = w * ChunkSize
    BY <2>1
  <2>3. StartOf(w) = 1 + Len(FlattenSeq(SubSeq(leaves, 1, (w * ChunkSize + 1) - 1)))
    BY Zenon DEF StartOf, FirstRow
  <2> QED
    BY <2>1, <2>2, <2>3 DEF Offset, Flat
<1>7. ASSUME NEW w \in Workers PROVE StartOf(w) \in 1..(N + 1)
  <2>1. w * ChunkSize <= Len(leaves)
    BY <1>1, <1>6
  <2>2. Offset(leaves, w * ChunkSize) <= N
    BY <1>1, <1>3, <1>4, <1>6, <2>1, FlatPrefix, Zenon
  <2> QED
    BY <1>2, <1>5, <1>6, <2>2
<1>8. ASSUME NEW v \in Workers, NEW w \in Workers, v <= w PROVE StartOf(v) <= StartOf(w)
  <2>1. v * ChunkSize <= w * ChunkSize
    <3>1. v \in Nat /\ w \in Nat /\ ChunkSize \in Nat
      BY Chunks
    <3>2. w * ChunkSize = v * ChunkSize + (w - v) * ChunkSize
      BY <3>1
    <3>3. (w - v) * ChunkSize \in Nat /\ v * ChunkSize \in Nat
      BY <3>1, <1>8
    <3> QED
      BY <3>2, <3>3
  <2>2. Offset(leaves, v * ChunkSize) <= Offset(leaves, w * ChunkSize)
    BY <1>1, <1>6, <2>1, FlatPrefix, Zenon
  <2> QED
    BY <1>2, <1>6, <2>2
<1>9. StartOf(0) = 1
  <2>1. 0 \in Workers /\ ChunkSize \in Nat
    BY Chunks
  <2>2. 0 * ChunkSize = 0
    BY <2>1
  <2> QED
    BY <1>2, <1>6, <2>1, <2>2
<1> QED
  BY <1>4, <1>5, <1>7, <1>8, <1>9

\* Ranges follow each other from the first row to the last.
LEMMA Ranges ==
  ASSUME query \in Queries, NEW w \in Workers
  PROVE  StartOf(w) <= EndOf(w) /\ EndOf(w) \in 1..(N + 1) /\ StartOf(w) \in 1..(N + 1)
<1>1. EndOf(w) = Bound(NextWorker(w)) /\ NextWorker(w) \in Workers \cup {NumWorkers}
      /\ NextWorker(w) > w
  BY NextWorkers
<1>2. N \in Nat /\ StartOf(w) \in 1..(N + 1)
  BY Rows
<1>3. CASE NextWorker(w) = NumWorkers
  BY <1>1, <1>2, <1>3 DEF Bound
<1>4. CASE NextWorker(w) # NumWorkers
  <2>1. NextWorker(w) \in Workers /\ NextWorker(w) \in Nat /\ w \in Nat
    BY <1>1, <1>4, Chunks
  <2>2. w <= NextWorker(w)
    BY <1>1, <2>1
  <2>3. StartOf(w) <= StartOf(NextWorker(w)) /\ StartOf(NextWorker(w)) \in 1..(N + 1)
    BY <2>1, <2>2, Rows
  <2> QED
    BY <1>1, <1>2, <1>4, <2>3 DEF Bound
<1> QED
  BY <1>3, <1>4

-----------------------------------------------------------------------------
(* The serial answer *)

Pair == Nat \X Nat

\* The rows that each row of the table gives, and how many those before row r + 1 give.
Lists == [r \in DOMAIN AllRows |-> [m \in 1..AllRows[r] |-> <<r, m>>]]
At(r) == Offset(Lists, r)

LEMMA ListOf ==
  ASSUME NEW X, NEW n \in Nat, NEW f \in [1..n -> X]
  PROVE  f \in Seq(X) /\ Len(f) = n
<1>1. f \in Seq(X)
  BY SeqDef, Zenon
<1>2. DOMAIN f = 1..Len(f) /\ Len(f) \in Nat
  BY <1>1, LenProperties, Zenon
<1>3. 1..Len(f) = 1..n
  BY <1>2, Zenon
<1>4. Len(f) = n
  BY <1>2, <1>3
<1> QED
  BY <1>1, <1>4

LEMMA Serial ==
  ASSUME query \in Queries, Evaluates
  PROVE  /\ SerialRows \in Seq(Pair) /\ Len(SerialRows) = At(N) /\ At(0) = 0
         /\ \A r \in 1..N : AllRows[r] \in Nat /\ At(r) = At(r - 1) + AllRows[r]
         /\ \A r \in 0..N : At(r) \in Nat /\ At(r) <= At(N)
         /\ \A r \in 1..N : \A m \in 1..AllRows[r] : SerialRows[At(r - 1) + m] = <<r, m>>
<1>1. /\ N \in Nat /\ DOMAIN AllRows = 1..N /\ \A r \in 1..N : AllRows[r] \in Values
  BY Rows
<1>2. \A r \in 1..N : AllRows[r] \in Nat
  <2>1. \A r \in 1..N : AllRows[r] # ErrorRow
    BY <1>1 DEF Evaluates, Range
  <2> QED
    BY <1>1, <2>1 DEF Values
<1>3. ASSUME NEW r \in 1..N
      PROVE  /\ Lists[r] = [m \in 1..AllRows[r] |-> <<r, m>>]
             /\ Lists[r] \in Seq(Pair) /\ Len(Lists[r]) = AllRows[r]
             /\ \A m \in 1..AllRows[r] : Lists[r][m] = <<r, m>>
  <2> DEFINE list == [m \in 1..AllRows[r] |-> <<r, m>>]
  <2>1. Lists[r] = list
    BY <1>1, Zenon DEF Lists
  <2>2. list \in [1..AllRows[r] -> Pair]
    <3>1. \A m \in 1..AllRows[r] : m \in Nat /\ r \in Nat
      BY <1>1, <1>2
    <3> QED
      BY <3>1, Zenon DEF Pair
  <2>3. list \in Seq(Pair) /\ Len(list) = AllRows[r]
    <3> HIDE DEF list
    <3> QED
      BY <1>2, <2>2, ListOf, Zenon
  <2> QED
    BY <2>1, <2>3, Zenon
<1>4. Lists \in Seq(Seq(Pair)) /\ Len(Lists) = N
  <2>1. Lists \in [1..N -> Seq(Pair)]
    <3>1. Lists = [r \in 1..N |-> Lists[r]]
      BY <1>1 DEF Lists
    <3>2. \A r \in 1..N : Lists[r] \in Seq(Pair)
      BY <1>3, Zenon
    <3> HIDE DEF Lists
    <3>3. [r \in 1..N |-> Lists[r]] \in [1..N -> Seq(Pair)]
      BY <3>2, Zenon
    <3> QED
      BY <3>1, <3>3, Zenon
  <2>2. N \in Nat
    BY <1>1, Zenon
  <2> QED
    BY <2>1, <2>2, ListOf, Zenon
<1>5. SerialRows = FlattenSeq(Lists)
  BY Zenon DEF SerialRows, Lists
<1>6. /\ \A n \in 0..N : Flat(Lists, n) \in Seq(Pair) /\ At(n) \in Nat
      /\ At(0) = 0 /\ SerialRows = Flat(Lists, N)
      /\ \A n \in 1..N : At(n) = At(n - 1) + Len(Lists[n])
  BY <1>4, <1>5, FlatSteps, Zenon DEF At
<1>7. N \in 0..N
  BY <1>1
<1>8. SerialRows \in Seq(Pair) /\ Len(SerialRows) = At(N)
  BY <1>6, <1>7, Zenon DEF At, Offset
<1>9. \A n \in 1..N : At(n) = At(n - 1) + AllRows[n]
  BY <1>3, <1>6, Zenon
<1>10. \A r \in 0..N : At(r) <= At(N)
  <2> TAKE r \in 0..N
  <2>1. r \in 0..Len(Lists) /\ N \in 0..Len(Lists) /\ r <= N
    BY <1>1, <1>4
  <2>2. Offset(Lists, r) <= Offset(Lists, N)
    BY <1>4, <2>1, FlatPrefix, Zenon
  <2> QED
    BY <2>2, Zenon DEF At
<1>11. \A r \in 1..N : \A m \in 1..AllRows[r] : SerialRows[At(r - 1) + m] = <<r, m>>
  <2> TAKE r \in 1..N
  <2> TAKE m \in 1..AllRows[r]
  <2>1. r \in 1..Len(Lists) /\ m \in 1..Len(Lists[r])
    BY <1>3, <1>4, Zenon
  <2>2. FlattenSeq(Lists)[Offset(Lists, r - 1) + m] = Lists[r][m]
    BY <1>4, <2>1, FlatBlock, Zenon
  <2> QED
    BY <1>3, <1>5, <2>2, Zenon DEF At
<1> QED
  BY <1>2, <1>6, <1>8, <1>9, <1>10, <1>11, Zenon

\* A piece of a sequence, without its first element, and with the one behind it.
LEMMA Piece ==
  ASSUME NEW X, NEW s \in Seq(X), NEW a \in Nat, NEW b \in Nat, a <= b, b <= Len(s)
  PROVE  /\ SubSeq(s, a + 1, b) \in Seq(X) /\ Len(SubSeq(s, a + 1, b)) = b - a
         /\ \A i \in 1..(b - a) : SubSeq(s, a + 1, b)[i] = s[a + i]
<1> DEFINE piece == SubSeq(s, a + 1, b)
<1>1. Len(s) \in Nat
  BY LenProperties, Zenon
<1>2. \A i \in (a + 1)..b : s[i] \in X
  BY <1>1, ElementOfSeq
<1>3. a + 1 \in Int /\ b \in Int /\ (b - (a + 1)) + 1 = b - a
      /\ (~(a + 1 <= b) => b - a = 0)
  OBVIOUS
<1>4. /\ piece \in Seq(X) /\ Len(piece) = IF a + 1 <= b THEN (b - (a + 1)) + 1 ELSE 0
      /\ \A i \in 1..((b - (a + 1)) + 1) : piece[i] = s[((a + 1) + i) - 1]
  BY <1>2, <1>3, SubSeqProperties
<1>5. \A i \in 1..(b - a) : ((a + 1) + i) - 1 = a + i
  OBVIOUS
<1>6. Len(piece) = b - a
  <2> HIDE DEF piece
  <2> QED
    BY <1>4
<1> HIDE DEF piece
<1>7. \A i \in 1..(b - a) : piece[i] = s[a + i]
  BY <1>3, <1>4, <1>5, Zenon
<1> QED
  BY <1>4, <1>6, <1>7, Zenon DEF piece

LEMMA EmptyPiece ==
  ASSUME NEW X, NEW s \in Seq(X), NEW a \in Nat, NEW b \in Nat, a <= b, b <= Len(s)
  PROVE  a = b <=> SubSeq(s, a + 1, b) = <<>>
<1>1. SubSeq(s, a + 1, b) \in Seq(X) /\ Len(SubSeq(s, a + 1, b)) = b - a
  BY Piece, Zenon
<1>2. SubSeq(s, a + 1, b) = <<>> <=> Len(SubSeq(s, a + 1, b)) = 0
  BY <1>1, EmptySeq
<1>3. a = b <=> b - a = 0
  OBVIOUS
<1> QED
  BY <1>1, <1>2, <1>3, Zenon

LEMMA PieceShrinks ==
  ASSUME NEW X, NEW s \in Seq(X), NEW a \in Nat, NEW b \in Nat, a < b, b <= Len(s)
  PROVE  /\ Head(SubSeq(s, a + 1, b)) = s[a + 1]
         /\ Tail(SubSeq(s, a + 1, b)) = SubSeq(s, (a + 1) + 1, b)
<1>1. Len(s) \in Nat
  BY LenProperties, Zenon
<1>2. a + 1 \in 1..Len(s) /\ b \in (a + 1)..Len(s)
  BY <1>1
<1> QED
  BY <1>2, HeadTailOfSubSeq, Zenon

LEMMA PieceGrows ==
  ASSUME NEW X, NEW s \in Seq(X), NEW a \in Nat, NEW b \in Nat, a <= b, b < Len(s)
  PROVE  SubSeq(s, a + 1, b + 1) = Append(SubSeq(s, a + 1, b), s[b + 1])
<1>1. Len(s) \in Nat
  BY LenProperties, Zenon
<1>2. /\ a + 1 \in 1..Len(s) /\ b + 1 \in (a + 1)..Len(s) /\ (b + 1) - 1 = b
      /\ b + 1 \in 1..Len(s) /\ b <= Len(s)
  BY <1>1
<1>3. SubSeq(s, a + 1, b + 1) = SubSeq(s, a + 1, (b + 1) - 1) \o <<s[b + 1]>>
  BY <1>2, SubSeqRecursiveSecond, Zenon
<1>4. SubSeq(s, a + 1, b + 1) = SubSeq(s, a + 1, b) \o <<s[b + 1]>>
  BY <1>2, <1>3, Zenon
<1>5. s[b + 1] \in X /\ SubSeq(s, a + 1, b) \in Seq(X)
  BY <1>2, ElementOfSeq, Piece, Zenon
<1> QED
  BY <1>4, <1>5, AppendIsConcat, Zenon

-----------------------------------------------------------------------------
(* Types *)

\* A statement keeps its query, and with it the partition and the serial answer.
LEMMA QueryStays ==
  ASSUME query' = query
  PROVE  /\ AllRows' = AllRows /\ N' = N /\ NumWorkers' = NumWorkers /\ Workers' = Workers
         /\ \A w : /\ StartOf(w)' = StartOf(w) /\ EndOf(w)' = EndOf(w)
                   /\ NextWorker(w)' = NextWorker(w)
         /\ Lists' = Lists /\ (\A r : At(r)' = At(r)) /\ SerialRows' = SerialRows
         /\ SerialAnswer' = SerialAnswer /\ Evaluates' = Evaluates
<1>1. AllRows' = AllRows /\ N' = N
  BY Zenon DEF AllRows, N
<1>2. NumWorkers' = NumWorkers /\ ChunkSize' = ChunkSize
  BY Zenon DEF NumWorkers, ChunkSize
<1>3. Workers' = Workers
  BY <1>2 DEF Workers
<1>4. \A w : StartOf(w)' = StartOf(w)
  BY <1>2, Zenon DEF StartOf, FirstRow
<1>5. \A w : NextWorker(w)' = NextWorker(w)
  <2> TAKE w
  <2>1. {v \in Workers : v > w}' = {v \in Workers : v > w}
    BY <1>3
  <2> QED
    BY <1>2, <2>1, Zenon DEF NextWorker
<1>6. \A w : EndOf(w)' = EndOf(w)
  BY <1>1, <1>2, <1>4, <1>5, Zenon DEF EndOf
<1>7. Lists' = Lists
  BY <1>1, Zenon DEF Lists
<1>8. SerialRows' = SerialRows
  <2>1. SerialRows = FlattenSeq(Lists) /\ SerialRows' = FlattenSeq(Lists')
    BY Zenon DEF SerialRows, Lists
  <2> QED
    BY <1>7, <2>1, Zenon
<1>9. \A r : At(r)' = At(r)
  BY <1>7, Zenon DEF At, Offset, Flat
<1>10. SerialAnswer' = SerialAnswer /\ Evaluates' = Evaluates
  BY <1>1, <1>8, Zenon DEF SerialAnswer, Evaluates
<1> QED
  BY <1>1, <1>2, <1>3, <1>4, <1>5, <1>6, <1>7, <1>8, <1>9, <1>10, Zenon

\* ParallelTypeOK is inductive together with: the channels and the answer hold pairs of a
\* row and a match, only workers with a range run, and a worker sends a match of its row.
TypeInv ==
    /\ ParallelTypeOK
    /\ channel \in [AllWorkers -> Seq(Pair)] /\ returned \in Seq(Pair)
    /\ \A w \in AllWorkers : (working[w] => w \in Workers) /\ (sending[w] => match_at[w] > 0)

InRange(w) ==
    /\ row_at[w] \in StartOf(w)..EndOf(w)
    /\ match_at[w] > 0 => row_at[w] < EndOf(w) /\ match_at[w] <= AllRows[row_at[w]]

LEMMA TypeInit == ParallelInit => TypeInv
<1> SUFFICES ASSUME ParallelInit PROVE TypeInv
  OBVIOUS
<1>1. query \in Queries
  BY DEF ParallelInit
<1>2. /\ Workers \subseteq AllWorkers /\ 0 \in Workers /\ Capacity \in Nat
      /\ query.limit \in Nat \cup {NoLimit} /\ query.offset \in Nat
  BY <1>1, Chunks, ParallelConstants
<1>3. \A w \in Workers : StartOf(w) \in Nat /\ StartOf(w) \in StartOf(w)..EndOf(w)
  BY <1>1, Ranges, Rows
<1>4. <<>> \in Seq(Pair) /\ Len(<<>>) = 0
  BY EmptySeq, Zenon
<1>5. row_at \in [AllWorkers -> Nat] /\ match_at \in [AllWorkers -> Nat]
  BY <1>3 DEF ParallelInit
<1>6. \A w \in AllWorkers : Len(channel[w]) <= Capacity
  BY <1>2, <1>4 DEF ParallelInit
<1>7. \A w \in Workers : InRange(w)
  BY <1>2, <1>3 DEF ParallelInit, InRange
<1>8. channel \in [AllWorkers -> Seq(Pair)] /\ returned \in Seq(Pair)
  BY <1>4, Zenon DEF ParallelInit
<1>9. \A w \in AllWorkers : (working[w] => w \in Workers) /\ (sending[w] => match_at[w] > 0)
  BY DEF ParallelInit
<1>10. sending \in [AllWorkers -> BOOLEAN] /\ working \in [AllWorkers -> BOOLEAN]
  BY DEF ParallelInit
<1>11. /\ stop \in BOOLEAN /\ failed \in BOOLEAN /\ current \in Workers \cup {NumWorkers}
       /\ offset_remaining \in 0..query.offset
       /\ remaining \in IF query.limit = NoLimit THEN {NoLimit} ELSE 0..query.limit
       /\ stream \in {"serial", "open", "ended", "dropped"}
  BY <1>2 DEF ParallelInit
<1>12. ParallelTypeOK
  BY <1>1, <1>5, <1>6, <1>7, <1>10, <1>11 DEF ParallelTypeOK, InRange
<1> QED
  BY <1>8, <1>9, <1>12 DEF TypeInv

\* What a running worker's position tells.
LEMMA RowOf ==
  ASSUME TypeInv, NEW w \in Workers
  PROVE  /\ query \in Queries /\ w \in AllWorkers /\ InRange(w)
         /\ row_at[w] \in 1..(N + 1) /\ match_at[w] \in Nat /\ N \in Nat
         /\ EndOf(w) \in 1..(N + 1) /\ StartOf(w) \in 1..(N + 1)
         /\ row_at[w] < EndOf(w) => row_at[w] \in 1..N /\ AllRows[row_at[w]] \in Values
<1>1. query \in Queries
  BY DEF TypeInv, ParallelTypeOK
<1>2. /\ N \in Nat /\ StartOf(w) \in 1..(N + 1) /\ EndOf(w) \in 1..(N + 1)
      /\ \A r \in 1..N : AllRows[r] \in Values
  BY <1>1, Rows, Ranges
<1>3. w \in AllWorkers
  BY <1>1, Chunks
<1>4. InRange(w)
  BY DEF TypeInv, ParallelTypeOK, InRange
<1>5. match_at[w] \in Nat
  BY <1>3 DEF TypeInv, ParallelTypeOK
<1>6. row_at[w] \in 1..(N + 1) /\ (row_at[w] < EndOf(w) => row_at[w] \in 1..N)
  BY <1>2, <1>4 DEF InRange
<1> QED
  BY <1>1, <1>2, <1>3, <1>4, <1>5, <1>6

\* A step of worker w keeps the types if its own position and channel stay sound.
LEMMA WorkerTypes ==
  ASSUME TypeInv, NEW w \in Workers, query' = query, UNCHANGED <<streamVars, returned>>,
         NEW r, NEW m \in Nat, NEW s \in BOOLEAN, NEW k \in BOOLEAN, NEW c \in Seq(Pair),
         row_at' = [row_at EXCEPT ![w] = r], match_at' = [match_at EXCEPT ![w] = m],
         sending' = [sending EXCEPT ![w] = s], working' = [working EXCEPT ![w] = k],
         channel' = [channel EXCEPT ![w] = c],
         r \in StartOf(w)..EndOf(w), m > 0 => r < EndOf(w) /\ m <= AllRows[r],
         s => m > 0, Len(c) <= Capacity, failed' \in BOOLEAN
  PROVE  TypeInv'
<1>1. query \in Queries /\ w \in AllWorkers /\ StartOf(w) \in Nat /\ EndOf(w) \in Nat
  BY RowOf
<1>2. /\ row_at \in [AllWorkers -> Nat] /\ match_at \in [AllWorkers -> Nat]
      /\ sending \in [AllWorkers -> BOOLEAN] /\ working \in [AllWorkers -> BOOLEAN]
      /\ channel \in [AllWorkers -> Seq(Pair)]
  BY DEF TypeInv, ParallelTypeOK
<1>3. r \in Nat
  BY <1>1
<1>4. /\ row_at' \in [AllWorkers -> Nat] /\ match_at' \in [AllWorkers -> Nat]
      /\ sending' \in [AllWorkers -> BOOLEAN] /\ working' \in [AllWorkers -> BOOLEAN]
      /\ channel' \in [AllWorkers -> Seq(Pair)]
  BY <1>1, <1>2, <1>3, Zenon
<1>5. \A v \in AllWorkers :
        /\ row_at'[v] = IF v = w THEN r ELSE row_at[v]
        /\ match_at'[v] = IF v = w THEN m ELSE match_at[v]
        /\ sending'[v] = IF v = w THEN s ELSE sending[v]
        /\ working'[v] = IF v = w THEN k ELSE working[v]
        /\ channel'[v] = IF v = w THEN c ELSE channel[v]
  BY <1>2, Zenon
<1>6. \A v \in Workers : InRange(v)'
  <2> TAKE v \in Workers
  <2>1. v \in AllWorkers /\ InRange(v)
    BY RowOf, Zenon
  <2>2. StartOf(v)' = StartOf(v) /\ EndOf(v)' = EndOf(v) /\ AllRows' = AllRows
    BY QueryStays, Zenon
  <2>3. CASE v = w
    BY <1>5, <2>1, <2>2, <2>3 DEF InRange
  <2>4. CASE v # w
    BY <1>5, <2>1, <2>2, <2>4 DEF InRange
  <2> QED
    BY <2>3, <2>4
<1>7. \A v \in AllWorkers : Len(channel'[v]) <= Capacity
  BY <1>5, Zenon DEF TypeInv, ParallelTypeOK
<1>8. \A v \in AllWorkers :
        (working'[v] => v \in Workers) /\ (sending'[v] => match_at'[v] > 0)
  <2> TAKE v \in AllWorkers
  <2>1. (working[v] => v \in Workers) /\ (sending[v] => match_at[v] > 0)
    BY Zenon DEF TypeInv
  <2> QED
    BY <1>5, <2>1, Zenon
<1>9. Workers' = Workers /\ NumWorkers' = NumWorkers /\ AllWorkers' = AllWorkers
  BY QueryStays, Zenon DEF AllWorkers
<1>10. /\ query' \in Queries /\ stop' \in BOOLEAN /\ failed' \in BOOLEAN
       /\ current' \in Workers \cup {NumWorkers}
       /\ offset_remaining' \in 0..query'.offset
       /\ remaining' \in IF query'.limit = NoLimit THEN {NoLimit} ELSE 0..query'.limit
       /\ stream' \in {"serial", "open", "ended", "dropped"}
  BY DEF streamVars, TypeInv, ParallelTypeOK
<1>11. ParallelTypeOK'
  BY <1>4, <1>6, <1>7, <1>9, <1>10, Zenon DEF ParallelTypeOK, InRange
<1>12. returned' \in Seq(Pair)
  BY DEF TypeInv
<1> QED
  BY <1>4, <1>8, <1>9, <1>11, <1>12, Zenon DEF TypeInv

LEMMA WorkerStepTypes ==
  ASSUME TypeInv, NEW w \in AllWorkers, WorkerStep(w)
  PROVE  TypeInv'
<1>1. w \in Workers
  BY DEF WorkerStep, WorkerStops, WorkerReads, WorkerOffers, WorkerSends, WorkerFails, TypeInv
<1>2. /\ InRange(w) /\ match_at[w] \in Nat /\ row_at[w] \in 1..(N + 1) /\ EndOf(w) \in Nat
      /\ StartOf(w) \in Nat
      /\ row_at[w] < EndOf(w) => row_at[w] \in 1..N /\ AllRows[row_at[w]] \in Values
  BY <1>1, RowOf
<1>3. row_at[w] \in StartOf(w)..EndOf(w)
  BY <1>2 DEF InRange
<1>4. /\ channel[w] \in Seq(Pair) /\ Len(channel[w]) <= Capacity
      /\ sending[w] \in BOOLEAN /\ working[w] \in BOOLEAN /\ failed \in BOOLEAN
      /\ sending[w] => match_at[w] > 0
  BY Zenon DEF TypeInv, ParallelTypeOK
<1>5. /\ row_at = [row_at EXCEPT ![w] = row_at[w]]
      /\ match_at = [match_at EXCEPT ![w] = match_at[w]]
      /\ sending = [sending EXCEPT ![w] = sending[w]]
      /\ working = [working EXCEPT ![w] = working[w]]
      /\ channel = [channel EXCEPT ![w] = channel[w]]
  BY DEF TypeInv, ParallelTypeOK
<1>6. ASSUME query' = query, UNCHANGED <<row_at, match_at, sending, channel>>, failed' \in BOOLEAN,
             UNCHANGED <<streamVars, returned>>, Exits(w)
      PROVE  TypeInv'
  <2>1. /\ row_at' = [row_at EXCEPT ![w] = row_at[w]]
        /\ match_at' = [match_at EXCEPT ![w] = match_at[w]]
        /\ sending' = [sending EXCEPT ![w] = sending[w]]
        /\ channel' = [channel EXCEPT ![w] = channel[w]]
    BY <1>5, <1>6, Zenon
  <2>2. match_at[w] > 0 => row_at[w] < EndOf(w) /\ match_at[w] <= AllRows[row_at[w]]
    BY <1>2, Zenon DEF InRange
  <2>3. working' = [working EXCEPT ![w] = FALSE] /\ FALSE \in BOOLEAN
    BY <1>6, Zenon DEF Exits
  <2>4. /\ match_at[w] \in Nat /\ failed' \in BOOLEAN /\ query' = query
        /\ UNCHANGED <<streamVars, returned>>
    BY <1>2, <1>6, Zenon
  <2> QED
    BY <1>1, <1>3, <1>4, <2>1, <2>2, <2>3, <2>4, WorkerTypes, Zenon
<1>7. CASE WorkerStops(w)
  BY <1>4, <1>6, <1>7, Zenon DEF WorkerStops
<1>8. CASE WorkerFails(w)
  <2>1. /\ query' = query /\ UNCHANGED <<row_at, match_at, sending, channel>>
        /\ failed' \in BOOLEAN /\ UNCHANGED <<streamVars, returned>> /\ Exits(w)
    BY <1>8, Zenon DEF WorkerFails
  <2> QED
    BY <1>6, <2>1, Zenon
<1>9. CASE WorkerReads(w)
  <2>1. /\ query' = query /\ UNCHANGED <<channel, streamVars, returned, failed>>
        /\ match_at[w] = 0
    BY <1>9, Zenon DEF WorkerReads
  <2>2. channel' = [channel EXCEPT ![w] = channel[w]] /\ failed' \in BOOLEAN
    BY <1>4, <1>5, <2>1, Zenon
  <2>3. CASE row_at[w] >= EndOf(w)
    <3>1. Exits(w) /\ UNCHANGED <<row_at, match_at, sending>>
      BY <1>9, <2>3, Zenon DEF WorkerReads
    <3> QED
      BY <1>6, <2>1, <2>2, <3>1, Zenon
  <2>4. CASE ~(row_at[w] >= EndOf(w)) /\ (AllRows[row_at[w]] \in {0, ErrorRow} \/ WhereFails(query))
    <3>1. row_at' = [row_at EXCEPT ![w] = row_at[w] + 1] /\ UNCHANGED <<match_at, sending, working>>
      BY <1>9, <2>4, Zenon DEF WorkerReads
    <3>2. /\ match_at' = [match_at EXCEPT ![w] = match_at[w]]
          /\ sending' = [sending EXCEPT ![w] = sending[w]]
          /\ working' = [working EXCEPT ![w] = working[w]]
      BY <1>5, <3>1, Zenon
    <3>3. row_at[w] + 1 \in StartOf(w)..EndOf(w)
      BY <1>2, <1>3, <2>4
    <3>4. ~(match_at[w] > 0)
      BY <2>1
    <3>5. /\ row_at' = [row_at EXCEPT ![w] = row_at[w] + 1] /\ match_at[w] \in Nat
          /\ query' = query /\ UNCHANGED <<streamVars, returned>>
      BY <1>2, <2>1, <3>1, Zenon
    <3> QED
      BY <1>1, <1>4, <2>2, <3>2, <3>3, <3>4, <3>5, WorkerTypes, Zenon
  <2>5. CASE ~(row_at[w] >= EndOf(w)) /\ ~(AllRows[row_at[w]] \in {0, ErrorRow} \/ WhereFails(query))
    <3>1. /\ match_at' = [match_at EXCEPT ![w] = 1]
          /\ sending' = [sending EXCEPT ![w] = ~query.join] /\ UNCHANGED <<row_at, working>>
      BY <1>9, <2>5, Zenon DEF WorkerReads
    <3>2. /\ row_at' = [row_at EXCEPT ![w] = row_at[w]]
          /\ working' = [working EXCEPT ![w] = working[w]]
      BY <1>5, <3>1, Zenon
    <3>3. row_at[w] < EndOf(w) /\ 1 <= AllRows[row_at[w]] /\ 1 \in Nat /\ 1 > 0
      BY <1>2, <2>5 DEF Values
    <3>4. (~query.join) \in BOOLEAN
      OBVIOUS
    <3> QED
      BY <1>1, <1>2, <1>3, <1>4, <2>1, <2>2, <3>1, <3>2, <3>3, <3>4, WorkerTypes, Zenon
  <2> QED
    BY <2>3, <2>4, <2>5, Zenon
<1>10. CASE WorkerOffers(w)
  <2>1. /\ query' = query /\ UNCHANGED <<row_at, match_at, working, channel, streamVars>>
        /\ UNCHANGED <<returned, failed>> /\ match_at[w] > 0
        /\ sending' = [sending EXCEPT ![w] = TRUE]
    BY <1>10, Zenon DEF WorkerOffers
  <2>2. /\ row_at' = [row_at EXCEPT ![w] = row_at[w]]
        /\ match_at' = [match_at EXCEPT ![w] = match_at[w]]
        /\ working' = [working EXCEPT ![w] = working[w]]
        /\ channel' = [channel EXCEPT ![w] = channel[w]]
    BY <1>5, <2>1, Zenon
  <2>3. /\ match_at[w] > 0 => row_at[w] < EndOf(w) /\ match_at[w] <= AllRows[row_at[w]]
        /\ TRUE \in BOOLEAN /\ failed' \in BOOLEAN
    BY <1>2, <1>4, <2>1, Zenon DEF InRange
  <2>4. /\ match_at[w] \in Nat /\ query' = query /\ UNCHANGED <<streamVars, returned>>
        /\ sending' = [sending EXCEPT ![w] = TRUE] /\ match_at[w] > 0
    BY <1>2, <2>1, Zenon
  <2> QED
    BY <1>1, <1>3, <1>4, <2>2, <2>3, <2>4, WorkerTypes, Zenon
<1>11. CASE WorkerSends(w)
  <2>1. /\ query' = query /\ UNCHANGED <<streamVars, returned, failed>> /\ sending[w]
        /\ sending' = [sending EXCEPT ![w] = FALSE]
    BY <1>11, Zenon DEF WorkerSends
  <2>2. match_at[w] > 0 /\ row_at[w] < EndOf(w) /\ match_at[w] <= AllRows[row_at[w]]
    BY <1>2, <1>4, <2>1, Zenon DEF InRange
  <2>3. FALSE \in BOOLEAN /\ failed' \in BOOLEAN
    BY <1>4, <2>1, Zenon
  <2>4. CASE stream = "dropped"
    <3>1. /\ working' = [working EXCEPT ![w] = FALSE]
          /\ row_at' = [row_at EXCEPT ![w] = row_at[w]]
          /\ match_at' = [match_at EXCEPT ![w] = match_at[w]]
          /\ channel' = [channel EXCEPT ![w] = channel[w]]
      BY <1>5, <1>11, <2>4, Zenon DEF WorkerSends, Exits
    <3> QED
      BY <1>1, <1>2, <1>3, <1>4, <2>1, <2>2, <2>3, <3>1, WorkerTypes, Zenon
  <2>5. CASE stream # "dropped"
    <3> DEFINE c == Append(channel[w], <<row_at[w], match_at[w]>>)
    <3>1. /\ Len(channel[w]) < Capacity
          /\ channel' = [channel EXCEPT ![w] = c]
          /\ working' = [working EXCEPT ![w] = working[w]]
      BY <1>5, <1>11, <2>5, Zenon DEF WorkerSends
    <3>2. c \in Seq(Pair) /\ Len(c) <= Capacity
      <4>1. <<row_at[w], match_at[w]>> \in Pair
        <5>1. row_at[w] \in Nat
          BY <1>2
        <5> QED
          BY <1>2, <5>1, Zenon DEF Pair
      <4>2. c \in Seq(Pair) /\ Len(c) = Len(channel[w]) + 1
        <5>1. \A x \in Pair : Append(channel[w], x) \in Seq(Pair)
                              /\ Len(Append(channel[w], x)) = Len(channel[w]) + 1
          BY <1>4, AppendProperties
        <5> QED
          BY <4>1, <5>1, Zenon
      <4>3. Len(channel[w]) \in Nat /\ Capacity \in Nat
        BY <1>4, LenProperties, ParallelConstants
      <4> HIDE DEF c
      <4> QED
        BY <3>1, <4>2, <4>3
    <3> HIDE DEF c
    <3>3. CASE match_at[w] < AllRows[row_at[w]]
      <4>1. /\ match_at' = [match_at EXCEPT ![w] = match_at[w] + 1]
            /\ row_at' = [row_at EXCEPT ![w] = row_at[w]]
        BY <1>5, <1>11, <2>5, <3>3, Zenon DEF WorkerSends
      <4>2. match_at[w] + 1 \in Nat /\ match_at[w] + 1 <= AllRows[row_at[w]]
        BY <1>2, <2>2, <3>3 DEF Values, ErrorRow
      <4> QED
        BY <1>1, <1>2, <1>3, <1>4, <2>1, <2>2, <2>3, <3>1, <3>2, <4>1, <4>2, WorkerTypes, Zenon
    <3>4. CASE ~(match_at[w] < AllRows[row_at[w]])
      <4>1. /\ match_at' = [match_at EXCEPT ![w] = 0]
            /\ row_at' = [row_at EXCEPT ![w] = row_at[w] + 1]
        BY <1>11, <2>5, <3>4, Zenon DEF WorkerSends
      <4>2. row_at[w] + 1 \in StartOf(w)..EndOf(w) /\ 0 \in Nat /\ ~(0 > 0)
        BY <1>2, <1>3, <2>2
      <4> QED
        BY <1>1, <1>4, <2>1, <2>3, <3>1, <3>2, <4>1, <4>2, WorkerTypes, Zenon
    <3> QED
      BY <3>3, <3>4, Zenon
  <2> QED
    BY <2>4, <2>5, Zenon
<1> QED
  BY <1>7, <1>8, <1>9, <1>10, <1>11, Zenon DEF WorkerStep

\* A step of the stream keeps them if what it writes is sound.
LEMMA StreamTypes ==
  ASSUME TypeInv, UNCHANGED <<query, row_at, match_at, sending, working, failed>>,
         channel' \in [AllWorkers -> Seq(Pair)],
         \A w \in AllWorkers : Len(channel'[w]) <= Capacity,
         returned' \in Seq(Pair), stop' \in BOOLEAN, current' \in Workers \cup {NumWorkers},
         offset_remaining' \in 0..query.offset,
         remaining' \in IF query.limit = NoLimit THEN {NoLimit} ELSE 0..query.limit,
         stream' \in {"serial", "open", "ended", "dropped"}
  PROVE  TypeInv'
<1>1. /\ Workers' = Workers /\ NumWorkers' = NumWorkers /\ AllWorkers' = AllWorkers
      /\ AllRows' = AllRows
      /\ \A w : StartOf(w)' = StartOf(w) /\ EndOf(w)' = EndOf(w)
  BY QueryStays, Zenon DEF AllWorkers
<1>2. /\ query' \in Queries /\ row_at' \in [AllWorkers -> Nat]
      /\ match_at' \in [AllWorkers -> Nat] /\ sending' \in [AllWorkers -> BOOLEAN]
      /\ working' \in [AllWorkers -> BOOLEAN] /\ failed' \in BOOLEAN
  BY Zenon DEF TypeInv, ParallelTypeOK
<1>3. \A w \in Workers : InRange(w)'
  <2> TAKE w \in Workers
  <2>1. InRange(w)
    BY RowOf, Zenon
  <2> QED
    BY <1>1, <2>1, Zenon DEF InRange
<1>4. /\ offset_remaining' \in 0..query'.offset
      /\ remaining' \in IF query'.limit = NoLimit THEN {NoLimit} ELSE 0..query'.limit
  BY Zenon
<1>5. ParallelTypeOK'
  BY <1>1, <1>2, <1>3, <1>4, Zenon DEF ParallelTypeOK, InRange
<1>6. \A w \in AllWorkers :
        (working'[w] => w \in Workers) /\ (sending'[w] => match_at'[w] > 0)
  BY Zenon DEF TypeInv
<1> QED
  BY <1>1, <1>5, <1>6, Zenon DEF TypeInv

\* The parts of the type invariant that the stream's steps read.
LEMMA StreamState ==
  ASSUME TypeInv
  PROVE  /\ query \in Queries /\ query.offset \in Nat /\ query.limit \in Nat \cup {NoLimit}
         /\ channel \in [AllWorkers -> Seq(Pair)] /\ returned \in Seq(Pair)
         /\ \A w \in AllWorkers : Len(channel[w]) <= Capacity /\ Len(channel[w]) \in Nat
         /\ stop \in BOOLEAN /\ current \in Workers \cup {NumWorkers}
         /\ offset_remaining \in 0..query.offset /\ Len(returned) \in Nat
         /\ remaining \in IF query.limit = NoLimit THEN {NoLimit} ELSE 0..query.limit
         /\ stream \in {"serial", "open", "ended", "dropped"} /\ Workers \subseteq AllWorkers
<1>1. query \in Queries
  BY Zenon DEF TypeInv, ParallelTypeOK
<1>2. query.offset \in Nat /\ query.limit \in Nat \cup {NoLimit} /\ Workers \subseteq AllWorkers
  BY <1>1, ParallelConstants, Chunks, Zenon
<1>3. channel \in [AllWorkers -> Seq(Pair)] /\ returned \in Seq(Pair)
  BY Zenon DEF TypeInv
<1>4. Len(returned) \in Nat /\ \A w \in AllWorkers : Len(channel[w]) \in Nat
  BY <1>3, LenProperties, Zenon
<1> QED
  BY <1>1, <1>2, <1>3, <1>4, Zenon DEF TypeInv, ParallelTypeOK

LEMMA StreamStepTypes ==
  ASSUME TypeInv, Pull \/ DropStream
  PROVE  TypeInv'
<1>1. CASE NextIsNone
  <2>1. /\ UNCHANGED <<query, workerVars, current, offset_remaining, remaining, returned, failed>>
        /\ stream' = "ended" /\ stop' = (stop \/ remaining = 0)
    BY <1>1, Zenon DEF NextIsNone
  <2>2. (stop \/ remaining = 0) \in BOOLEAN
    OBVIOUS
  <2>3. stop' \in BOOLEAN /\ stream' \in {"serial", "open", "ended", "dropped"}
    BY <2>1, <2>2
  <2> QED
    BY <2>1, <2>3, StreamState, StreamTypes, Zenon DEF workerVars
<1>2. CASE DropStream
  <2>1. /\ UNCHANGED <<query, workerVars, current, offset_remaining, remaining, returned, failed>>
        /\ stream' = "dropped" /\ stop' = TRUE
    BY <1>2, Zenon DEF DropStream
  <2>2. stop' \in BOOLEAN /\ stream' \in {"serial", "open", "ended", "dropped"}
    BY <2>1
  <2> QED
    BY <2>1, <2>2, StreamState, StreamTypes, Zenon DEF workerVars
<1>3. CASE NextChannel
  <2>1. /\ UNCHANGED <<query, workerVars, stop, offset_remaining, remaining, stream>>
        /\ UNCHANGED <<returned, failed>>
        /\ current # NumWorkers /\ current' = NextWorker(current)
    BY <1>3, Zenon DEF NextChannel
  <2>2. current \in Workers
    BY <2>1, StreamState, Zenon
  <2>3. current' \in Workers \cup {NumWorkers}
    BY <2>1, <2>2, StreamState, NextWorkers, Zenon
  <2> QED
    BY <2>1, <2>3, StreamState, StreamTypes, Zenon DEF workerVars
<1>4. CASE NextIsRow
  <2>1. /\ UNCHANGED <<query, row_at, match_at, sending, working, current, stream, failed>>
        /\ current # NumWorkers /\ channel[current] # <<>> /\ remaining # 0
        /\ channel' = [channel EXCEPT ![current] = Tail(@)]
    BY <1>4, Zenon DEF NextIsRow
  <2>2. current \in AllWorkers /\ channel[current] \in Seq(Pair)
    BY <2>1, StreamState, Zenon
  <2>3. /\ Head(channel[current]) \in Pair /\ Tail(channel[current]) \in Seq(Pair)
        /\ Len(Tail(channel[current])) = Len(channel[current]) - 1
    BY <2>1, <2>2, HeadTailProperties, Zenon
  <2>4. /\ channel' \in [AllWorkers -> Seq(Pair)]
        /\ \A w \in AllWorkers :
              channel'[w] = IF w = current THEN Tail(channel[current]) ELSE channel[w]
    BY <2>1, <2>2, <2>3, StreamState, Zenon
  <2>5. \A w \in AllWorkers : Len(channel'[w]) <= Capacity
    <3> TAKE w \in AllWorkers
    <3>1. Len(channel[w]) <= Capacity /\ Len(channel[w]) \in Nat /\ Capacity \in Nat
      BY StreamState, ParallelConstants
    <3>2. CASE w = current
      BY <2>3, <2>4, <3>1, <3>2
    <3>3. CASE w # current
      BY <2>4, <3>1, <3>3, Zenon
    <3> QED
      BY <3>2, <3>3
  <2>6. CASE offset_remaining > 0
    <3>1. /\ offset_remaining' = offset_remaining - 1
          /\ UNCHANGED <<returned, remaining, stop>>
      BY <1>4, <2>6, Zenon DEF NextIsRow
    <3>2. offset_remaining' \in 0..query.offset
      <4>1. offset_remaining \in 0..query.offset /\ query.offset \in Nat
        BY StreamState, Zenon
      <4> QED
        BY <2>6, <3>1, <4>1
    <3> QED
      BY <2>1, <2>4, <2>5, <3>1, <3>2, StreamState, StreamTypes, Zenon
  <2>7. CASE ~(offset_remaining > 0)
    <3>1. /\ returned' = Append(returned, Head(channel[current]))
          /\ remaining' = IF remaining = NoLimit THEN NoLimit ELSE remaining - 1
          /\ stop' = (stop \/ remaining = 1) /\ offset_remaining' = offset_remaining
      BY <1>4, <2>7, Zenon DEF NextIsRow
    <3>2. returned' \in Seq(Pair)
      BY <2>3, <3>1, StreamState, AppendProperties, Zenon
    <3>3. remaining' \in IF query.limit = NoLimit THEN {NoLimit} ELSE 0..query.limit
      <4>1. /\ remaining \in IF query.limit = NoLimit THEN {NoLimit} ELSE 0..query.limit
            /\ query.limit \in Nat \cup {NoLimit}
        BY StreamState, Zenon
      <4> QED
        BY <2>1, <3>1, <4>1 DEF NoLimit
    <3>4. stop' \in BOOLEAN
      <4>1. (stop \/ remaining = 1) \in BOOLEAN
        OBVIOUS
      <4> QED
        BY <3>1, <4>1
    <3> QED
      BY <2>1, <2>4, <2>5, <3>1, <3>2, <3>3, <3>4, StreamState, StreamTypes, Zenon
  <2> QED
    BY <2>6, <2>7, Zenon
<1> QED
  BY <1>1, <1>2, <1>3, <1>4, Zenon DEF Pull

LEMMA TypeStep == TypeInv /\ [ParallelNext]_parallelVars => TypeInv'
<1> SUFFICES ASSUME TypeInv, [ParallelNext]_parallelVars PROVE TypeInv'
  OBVIOUS
<1>1. CASE UNCHANGED parallelVars
  BY <1>1, StreamState, StreamTypes, Zenon DEF parallelVars, workerVars, streamVars
<1> QED
  BY <1>1, WorkerStepTypes, StreamStepTypes, Zenon DEF ParallelNext

LEMMA TypesHold == ParallelSpec => []TypeInv
<1>1. ParallelInit => TypeInv
  BY TypeInit, Zenon
<1>2. TypeInv /\ [ParallelNext]_parallelVars => TypeInv'
  BY TypeStep, Zenon
<1> QED
  BY <1>1, <1>2, PTL DEF ParallelSpec

\* Every position of a worker lies in its range, every match in its row's, the channels
\* keep to their depth and the counters of the stream to LIMIT and OFFSET.
THEOREM ParallelTypeCorrect == ParallelSpec => []ParallelTypeOK
<1>1. TypeInv => ParallelTypeOK
  BY Zenon DEF TypeInv
<1> QED
  BY <1>1, TypesHold, PTL

-----------------------------------------------------------------------------
(* The answer *)

\* How many rows of the serial answer worker w has sent, counted from the first row of
\* the table, and how many the stream has taken from the channels.
Given(w) == At(row_at[w] - 1) + (IF match_at[w] > 0 THEN match_at[w] - 1 ELSE 0)
Taken == (query.offset - offset_remaining) + Len(returned)

\* Behind the channel the stream drains, nothing has been taken.
From(w) == IF w = current THEN Taken ELSE At(StartOf(w) - 1)

\* A channel holds what its worker has sent and the stream has not taken, and a worker
\* that has returned had come to the end of its range.
ChannelOK(w) ==
    /\ From(w) <= Given(w) /\ channel[w] = SubSeq(SerialRows, From(w) + 1, Given(w))
    /\ ~working[w] => row_at[w] = EndOf(w)

\* What the stream has handed out is the taken part of the serial answer behind OFFSET.
StreamOK ==
    /\ Taken <= Len(SerialRows)
    /\ IF offset_remaining > 0 THEN returned = <<>>
                               ELSE returned = SubSeq(SerialRows, query.offset + 1, Taken)
    /\ query.limit # NoLimit => remaining = query.limit - Len(returned)
    /\ current = NumWorkers => Taken = Len(SerialRows)
    /\ stream = "ended" => remaining = 0 \/ Taken = Len(SerialRows)
    /\ stop => remaining = 0 \/ stream = "dropped"

Draining == stream = "open" /\ remaining # 0
Faithful == ~failed /\ Evaluates /\ ~WhereFails(query)

\* The inductive invariant behind SameAsSerial.
AnswerInv ==
    Faithful =>
        /\ StreamOK
        /\ Draining => \A w \in Workers : w >= current => ChannelOK(w)

\* The position of a worker as a position in the serial answer.
LEMMA Positions ==
  ASSUME TypeInv, Evaluates, NEW w \in Workers
  PROVE  /\ At(row_at[w] - 1) \in Nat /\ At(StartOf(w) - 1) \in Nat /\ At(EndOf(w) - 1) \in Nat
         /\ Given(w) \in Nat /\ Given(w) <= Len(SerialRows) /\ Len(SerialRows) \in Nat
         /\ row_at[w] = EndOf(w) => Given(w) = At(EndOf(w) - 1)
         /\ row_at[w] < EndOf(w) =>
              /\ AllRows[row_at[w]] \in Nat
              /\ At((row_at[w] + 1) - 1) = At(row_at[w] - 1) + AllRows[row_at[w]]
         /\ match_at[w] > 0 => /\ Given(w) < Len(SerialRows)
                               /\ SerialRows[Given(w) + 1] = <<row_at[w], match_at[w]>>
<1> DEFINE r == row_at[w]
           m == match_at[w]
<1>1. /\ query \in Queries /\ InRange(w) /\ r \in 1..(N + 1) /\ m \in Nat /\ N \in Nat
      /\ EndOf(w) \in 1..(N + 1) /\ StartOf(w) \in 1..(N + 1)
      /\ r < EndOf(w) => r \in 1..N
  BY RowOf, Zenon
<1>2. r - 1 \in 0..N /\ StartOf(w) - 1 \in 0..N /\ EndOf(w) - 1 \in 0..N /\ N \in 0..N
  BY <1>1
<1>3. /\ Len(SerialRows) = At(N) /\ \A k \in 0..N : At(k) \in Nat /\ At(k) <= At(N)
  BY <1>1, Serial, Zenon
<1>4. At(r - 1) \in Nat /\ At(StartOf(w) - 1) \in Nat /\ At(EndOf(w) - 1) \in Nat /\ At(N) \in Nat
      /\ At(r - 1) <= At(N)
  BY <1>2, <1>3, Zenon
<1>5. ASSUME r < EndOf(w)
      PROVE  /\ AllRows[r] \in Nat /\ At((r + 1) - 1) = At(r - 1) + AllRows[r]
             /\ At(r) \in Nat /\ At(r) <= At(N) /\ At(r) = At(r - 1) + AllRows[r]
             /\ \A k \in 1..AllRows[r] : SerialRows[At(r - 1) + k] = <<r, k>>
  <2>1. r \in 1..N /\ r \in 0..N /\ (r + 1) - 1 = r
    BY <1>1, <1>5
  <2>2. /\ AllRows[r] \in Nat /\ At(r) = At(r - 1) + AllRows[r]
        /\ \A k \in 1..AllRows[r] : SerialRows[At(r - 1) + k] = <<r, k>>
    BY <1>1, <2>1, Serial, Zenon
  <2>3. At(r) \in Nat /\ At(r) <= At(N)
    BY <1>3, <2>1, Zenon
  <2> QED
    BY <2>1, <2>2, <2>3, Zenon
<1> HIDE DEF r, m
<1>6. ASSUME m > 0
      PROVE  /\ Given(w) \in Nat /\ Given(w) < At(N) /\ SerialRows[Given(w) + 1] = <<r, m>>
             /\ r < EndOf(w)
  <2>1. r < EndOf(w) /\ m <= AllRows[r]
    BY <1>1, <1>6, Zenon DEF InRange, r, m
  <2>2. Given(w) = At(r - 1) + (m - 1)
    BY <1>6, Zenon DEF Given, r, m
  <2>3. AllRows[r] \in Nat /\ At(r) <= At(N) /\ At(r) = At(r - 1) + AllRows[r] /\ At(r) \in Nat
    BY <1>5, <2>1, Zenon
  <2>4. /\ Given(w) \in Nat /\ Given(w) < At(N) /\ Given(w) + 1 = At(r - 1) + m
        /\ m \in 1..AllRows[r]
    BY <1>1, <1>4, <1>6, <2>1, <2>2, <2>3
  <2> QED
    BY <1>5, <2>1, <2>4, Zenon
<1>7. ASSUME ~(m > 0) PROVE Given(w) = At(r - 1)
  <2>1. Given(w) = At(r - 1) + 0
    BY <1>7, Zenon DEF Given, r, m
  <2> QED
    BY <1>4, <2>1
<1>8. Given(w) \in Nat /\ Given(w) <= At(N)
  <2>1. CASE m > 0
    <3>1. Given(w) \in Nat /\ Given(w) < At(N)
      BY <1>6, <2>1, Zenon
    <3> QED
      BY <1>4, <3>1
  <2>2. CASE ~(m > 0)
    BY <1>4, <1>7, <2>2, Zenon
  <2> QED
    BY <2>1, <2>2, Zenon
<1>9. ASSUME r = EndOf(w) PROVE Given(w) = At(EndOf(w) - 1)
  <2>1. ~(r < EndOf(w))
    BY <1>1, <1>9
  <2> QED
    BY <1>6, <1>7, <1>9, <2>1, Zenon
<1> QED
  BY <1>3, <1>4, <1>5, <1>6, <1>8, <1>9, Zenon DEF r, m

\* A step of worker w changes no other worker and nothing of the stream's.
LEMMA WorkerAnswers ==
  ASSUME TypeInv, AnswerInv, NEW w \in Workers, query' = query, failed' = failed,
         UNCHANGED <<streamVars, returned>>,
         \A v \in Workers : v # w => /\ row_at'[v] = row_at[v] /\ match_at'[v] = match_at[v]
                                     /\ channel'[v] = channel[v] /\ working'[v] = working[v],
         Faithful /\ StreamOK /\ Draining /\ ChannelOK(w) => ChannelOK(w)'
  PROVE  AnswerInv'
<1> SUFFICES ASSUME Faithful'
             PROVE  StreamOK' /\ (Draining' => \A v \in Workers' : v >= current' => ChannelOK(v)')
  BY Zenon DEF AnswerInv
<1>1. /\ Workers' = Workers /\ NumWorkers' = NumWorkers /\ SerialRows' = SerialRows
      /\ Evaluates' = Evaluates /\ \A r : At(r)' = At(r)
      /\ \A v : StartOf(v)' = StartOf(v) /\ EndOf(v)' = EndOf(v)
  BY QueryStays, Zenon
<1>2. /\ current' = current /\ offset_remaining' = offset_remaining /\ remaining' = remaining
      /\ stream' = stream /\ stop' = stop /\ returned' = returned
  BY Zenon DEF streamVars
<1>3. Taken' = Taken
  BY <1>2, Zenon DEF Taken
<1>4. Faithful
  BY <1>1, Zenon DEF Faithful, WhereFails
<1>5. StreamOK /\ (Draining => \A v \in Workers : v >= current => ChannelOK(v))
  BY <1>4, Zenon DEF AnswerInv
<1>6. StreamOK'
  BY <1>1, <1>2, <1>3, <1>5, Zenon DEF StreamOK
<1>7. ASSUME Draining', NEW v \in Workers, v >= current PROVE ChannelOK(v)'
  <2>1. Draining
    BY <1>2, <1>7, Zenon DEF Draining
  <2>2. ChannelOK(v)
    BY <1>5, <1>7, <2>1, Zenon
  <2>3. CASE v = w
    BY <1>4, <1>5, <2>1, <2>2, <2>3, Zenon
  <2>4. CASE v # w
    <3>1. From(v)' = From(v)
      BY <1>1, <1>2, <1>3, Zenon DEF From
    <3>2. /\ row_at'[v] = row_at[v] /\ match_at'[v] = match_at[v]
          /\ channel'[v] = channel[v] /\ working'[v] = working[v]
      BY <2>4, Zenon
    <3>3. Given(v)' = Given(v)
      BY <1>1, <3>2, Zenon DEF Given
    <3> QED
      BY <1>1, <2>2, <3>1, <3>2, <3>3, Zenon DEF ChannelOK
  <2> QED
    BY <2>3, <2>4, Zenon
<1> QED
  BY <1>1, <1>2, <1>6, <1>7, Zenon

\* The range and the channel of a worker that the step changes.
LEMMA WorkerStepAnswers ==
  ASSUME TypeInv, AnswerInv, NEW w \in AllWorkers, WorkerStep(w)
  PROVE  AnswerInv'
<1>1. w \in Workers /\ working[w] /\ query' = query /\ UNCHANGED <<streamVars, returned>>
  BY Zenon DEF WorkerStep, WorkerStops, WorkerReads, WorkerOffers, WorkerSends, WorkerFails,
               TypeInv
<1>2. /\ InRange(w) /\ match_at[w] \in Nat /\ row_at[w] \in 1..(N + 1) /\ N \in Nat
      /\ EndOf(w) \in 1..(N + 1)
  BY <1>1, RowOf, Zenon
<1>3. /\ row_at \in [AllWorkers -> Nat] /\ match_at \in [AllWorkers -> Nat]
      /\ working \in [AllWorkers -> BOOLEAN] /\ channel \in [AllWorkers -> Seq(Pair)]
      /\ Workers \subseteq AllWorkers
  BY StreamState, Zenon DEF TypeInv, ParallelTypeOK
<1>4. /\ SerialRows' = SerialRows /\ From(w)' = From(w) /\ EndOf(w)' = EndOf(w)
      /\ \A r : At(r)' = At(r)
  <2>1. /\ SerialRows' = SerialRows /\ EndOf(w)' = EndOf(w) /\ (\A r : At(r)' = At(r))
        /\ StartOf(w)' = StartOf(w)
    BY <1>1, QueryStays, Zenon
  <2>2. current' = current /\ offset_remaining' = offset_remaining /\ returned' = returned
    BY <1>1, Zenon DEF streamVars
  <2>3. Taken' = Taken
    BY <1>1, <2>2, Zenon DEF Taken
  <2> QED
    BY <2>1, <2>2, <2>3, Zenon DEF From
<1>5. CASE WorkerFails(w)
  <2>1. ~Faithful'
    BY <1>5, Zenon DEF WorkerFails, Faithful
  <2> QED
    BY <2>1, Zenon DEF AnswerInv
<1>6. CASE WorkerStops(w)
  <2>1. /\ stop /\ row_at' = row_at /\ match_at' = match_at /\ channel' = channel
        /\ failed' = failed /\ working' = [working EXCEPT ![w] = FALSE]
    BY <1>6, Zenon DEF WorkerStops, Exits
  <2>2. \A v \in Workers : v # w => /\ row_at'[v] = row_at[v] /\ match_at'[v] = match_at[v]
                                    /\ channel'[v] = channel[v] /\ working'[v] = working[v]
    BY <1>3, <2>1, Zenon
  <2>3. ~(StreamOK /\ Draining)
    BY <2>1 DEF StreamOK, Draining
  <2> QED
    BY <1>1, <2>1, <2>2, <2>3, WorkerAnswers, Zenon
<1>7. CASE WorkerOffers(w)
  <2>1. /\ row_at' = row_at /\ match_at' = match_at /\ channel' = channel
        /\ failed' = failed /\ working' = working
    BY <1>7, Zenon DEF WorkerOffers
  <2>2. \A v \in Workers : v # w => /\ row_at'[v] = row_at[v] /\ match_at'[v] = match_at[v]
                                    /\ channel'[v] = channel[v] /\ working'[v] = working[v]
    BY <2>1, Zenon
  <2>3. ChannelOK(w) => ChannelOK(w)'
    BY <1>4, <2>1, Zenon DEF ChannelOK, Given
  <2> QED
    BY <1>1, <2>1, <2>2, <2>3, WorkerAnswers, Zenon
<1>8. CASE WorkerReads(w)
  <2>1. channel' = channel /\ failed' = failed /\ match_at[w] = 0
    BY <1>8, Zenon DEF WorkerReads
  <2>2. CASE row_at[w] >= EndOf(w)
    <3>1. /\ working' = [working EXCEPT ![w] = FALSE] /\ row_at' = row_at
          /\ match_at' = match_at
      BY <1>8, <2>2, Zenon DEF WorkerReads, Exits
    <3>2. \A v \in Workers : v # w => /\ row_at'[v] = row_at[v] /\ match_at'[v] = match_at[v]
                                      /\ channel'[v] = channel[v] /\ working'[v] = working[v]
      BY <1>3, <2>1, <3>1, Zenon
    <3>3. row_at[w] = EndOf(w)
      BY <1>2, <2>2 DEF InRange
    <3>4. ChannelOK(w) => ChannelOK(w)'
      BY <1>4, <2>1, <3>1, <3>3, Zenon DEF ChannelOK, Given
    <3> QED
      BY <1>1, <2>1, <3>2, <3>4, WorkerAnswers, Zenon
  <2>3. CASE ~(row_at[w] >= EndOf(w)) /\ (AllRows[row_at[w]] \in {0, ErrorRow} \/ WhereFails(query))
    <3>1. /\ row_at' = [row_at EXCEPT ![w] = row_at[w] + 1]
          /\ match_at' = match_at /\ working' = working
      BY <1>8, <2>3, Zenon DEF WorkerReads
    <3>2. \A v \in Workers : v # w => /\ row_at'[v] = row_at[v] /\ match_at'[v] = match_at[v]
                                      /\ channel'[v] = channel[v] /\ working'[v] = working[v]
      BY <1>3, <2>1, <3>1, Zenon
    <3>3. ASSUME Faithful, ChannelOK(w) PROVE ChannelOK(w)'
      <4>1. row_at[w] < EndOf(w)
        BY <1>2, <2>3
      <4>2. /\ AllRows[row_at[w]] \in Nat /\ At(row_at[w] - 1) \in Nat
            /\ At((row_at[w] + 1) - 1) = At(row_at[w] - 1) + AllRows[row_at[w]]
        BY <1>1, <3>3, <4>1, Positions, Zenon DEF Faithful
      <4>3. AllRows[row_at[w]] = 0
        BY <2>3, <3>3, <4>2 DEF Faithful, ErrorRow
      <4>4. At((row_at[w] + 1) - 1) = At(row_at[w] - 1)
        BY <4>2, <4>3
      <4>5. row_at'[w] = row_at[w] + 1
        BY <1>3, <3>1, Zenon
      <4>6. Given(w)' = Given(w)
        BY <1>4, <3>1, <4>4, <4>5, Zenon DEF Given
      <4> QED
        BY <1>1, <1>4, <2>1, <3>1, <3>3, <4>6, Zenon DEF ChannelOK
    <3> QED
      BY <1>1, <2>1, <3>2, <3>3, WorkerAnswers, Zenon
  <2>4. CASE ~(row_at[w] >= EndOf(w)) /\ ~(AllRows[row_at[w]] \in {0, ErrorRow} \/ WhereFails(query))
    <3>1. /\ match_at' = [match_at EXCEPT ![w] = 1] /\ row_at' = row_at /\ working' = working
      BY <1>8, <2>4, Zenon DEF WorkerReads
    <3>2. \A v \in Workers : v # w => /\ row_at'[v] = row_at[v] /\ match_at'[v] = match_at[v]
                                      /\ channel'[v] = channel[v] /\ working'[v] = working[v]
      BY <1>3, <2>1, <3>1, Zenon
    <3>3. Given(w)' = Given(w)
      <4>1. match_at'[w] = 1
        BY <1>3, <3>1, Zenon
      <4>2. match_at'[w] > 0 /\ match_at'[w] - 1 = 0 /\ ~(match_at[w] > 0)
        BY <2>1, <4>1
      <4>3. Given(w)' = At(row_at[w] - 1) + 0 /\ Given(w) = At(row_at[w] - 1) + 0
        BY <1>4, <3>1, <4>2, Zenon DEF Given
      <4> QED
        BY <4>3, Zenon
    <3>4. ChannelOK(w) => ChannelOK(w)'
      BY <1>4, <2>1, <3>1, <3>3, Zenon DEF ChannelOK
    <3> QED
      BY <1>1, <2>1, <3>2, <3>4, WorkerAnswers, Zenon
  <2> QED
    BY <2>2, <2>3, <2>4, Zenon
<1>9. CASE WorkerSends(w)
  <2>1. failed' = failed /\ sending[w]
    BY <1>9, Zenon DEF WorkerSends
  <2>2. CASE stream = "dropped"
    <3>1. /\ working' = [working EXCEPT ![w] = FALSE] /\ row_at' = row_at
          /\ match_at' = match_at /\ channel' = channel
      BY <1>9, <2>2, Zenon DEF WorkerSends, Exits
    <3>2. \A v \in Workers : v # w => /\ row_at'[v] = row_at[v] /\ match_at'[v] = match_at[v]
                                      /\ channel'[v] = channel[v] /\ working'[v] = working[v]
      BY <1>3, <3>1, Zenon
    <3>3. ~Draining
      BY <2>2 DEF Draining
    <3> QED
      BY <1>1, <2>1, <3>2, <3>3, WorkerAnswers, Zenon
  <2>3. CASE stream # "dropped"
    <3>1. /\ channel' = [channel EXCEPT ![w] = Append(channel[w], <<row_at[w], match_at[w]>>)]
          /\ working' = working
      BY <1>9, <2>3, Zenon DEF WorkerSends
    <3>2. \/ /\ match_at[w] < AllRows[row_at[w]] /\ row_at' = row_at
             /\ match_at' = [match_at EXCEPT ![w] = match_at[w] + 1]
          \/ /\ ~(match_at[w] < AllRows[row_at[w]])
             /\ match_at' = [match_at EXCEPT ![w] = 0]
             /\ row_at' = [row_at EXCEPT ![w] = row_at[w] + 1]
      BY <1>9, <2>3, Zenon DEF WorkerSends
    <3>3. \A v \in Workers : v # w => /\ row_at'[v] = row_at[v] /\ match_at'[v] = match_at[v]
                                      /\ channel'[v] = channel[v] /\ working'[v] = working[v]
      BY <1>3, <3>1, <3>2, Zenon
    <3>4. ASSUME Faithful, StreamOK, ChannelOK(w) PROVE ChannelOK(w)'
      <4>1. match_at[w] > 0
        BY <2>1, Zenon DEF TypeInv
      <4>2. row_at[w] < EndOf(w) /\ match_at[w] <= AllRows[row_at[w]]
        BY <1>2, <4>1, Zenon DEF InRange
      <4>3. /\ AllRows[row_at[w]] \in Nat /\ At(row_at[w] - 1) \in Nat /\ Len(SerialRows) \in Nat
            /\ At((row_at[w] + 1) - 1) = At(row_at[w] - 1) + AllRows[row_at[w]]
            /\ Given(w) \in Nat /\ Given(w) < Len(SerialRows) /\ Given(w) <= Len(SerialRows)
            /\ SerialRows[Given(w) + 1] = <<row_at[w], match_at[w]>>
            /\ At(StartOf(w) - 1) \in Nat
        BY <1>1, <3>4, <4>1, <4>2, Positions, Zenon DEF Faithful
      <4>4. Given(w) = At(row_at[w] - 1) + (match_at[w] - 1)
        BY <4>1, Zenon DEF Given
      <4>5. Given(w)' = Given(w) + 1
        <5>1. CASE /\ match_at[w] < AllRows[row_at[w]] /\ row_at' = row_at
                   /\ match_at' = [match_at EXCEPT ![w] = match_at[w] + 1]
          <6>1. match_at'[w] = match_at[w] + 1 /\ row_at'[w] = row_at[w]
            BY <1>3, <5>1, Zenon
          <6>2. Given(w)' = At(row_at[w] - 1) + (IF match_at[w] + 1 > 0 THEN (match_at[w] + 1) - 1 ELSE 0)
            BY <1>4, <6>1, Zenon DEF Given
          <6> QED
            BY <1>2, <4>3, <4>4, <6>2
        <5>2. CASE /\ ~(match_at[w] < AllRows[row_at[w]])
                   /\ match_at' = [match_at EXCEPT ![w] = 0]
                   /\ row_at' = [row_at EXCEPT ![w] = row_at[w] + 1]
          <6>1. match_at'[w] = 0 /\ row_at'[w] = row_at[w] + 1
            BY <1>3, <5>2, Zenon
          <6>2. ~(match_at'[w] > 0)
            BY <6>1
          <6>3. Given(w)' = At((row_at[w] + 1) - 1) + 0
            BY <1>4, <6>1, <6>2, Zenon DEF Given
          <6>4. match_at[w] = AllRows[row_at[w]]
            BY <1>2, <4>2, <4>3, <5>2
          <6>5. Given(w)' = (At(row_at[w] - 1) + match_at[w]) + 0
            BY <4>3, <6>3, <6>4, Zenon
          <6> QED
            BY <1>2, <4>3, <4>4, <6>5
        <5> QED
          BY <3>2, <5>1, <5>2, Zenon
      <4>6. From(w) \in Nat /\ From(w) <= Given(w)
        <5>1. Taken \in Nat
          <6>1. offset_remaining \in 0..query.offset /\ query.offset \in Nat /\ Len(returned) \in Nat
            BY StreamState, Zenon
          <6> QED
            BY <6>1 DEF Taken
        <5> QED
          BY <3>4, <4>3, <5>1, Zenon DEF From, ChannelOK
      <4>7. SubSeq(SerialRows, From(w) + 1, Given(w) + 1) =
              Append(SubSeq(SerialRows, From(w) + 1, Given(w)), SerialRows[Given(w) + 1])
        <5>1. SerialRows \in Seq(Pair)
          BY <3>4, StreamState, Serial, Zenon DEF Faithful
        <5> QED
          BY <4>3, <4>6, <5>1, PieceGrows, Zenon
      <4>8. channel'[w] = Append(channel[w], <<row_at[w], match_at[w]>>)
        BY <1>3, <3>1, Zenon
      <4>9. channel'[w] = SubSeq(SerialRows, From(w) + 1, Given(w) + 1)
        BY <3>4, <4>3, <4>7, <4>8, Zenon DEF ChannelOK
      <4>10. From(w) <= Given(w) + 1
        BY <4>3, <4>6
      <4> QED
        BY <1>1, <1>4, <3>1, <4>5, <4>9, <4>10, Zenon DEF ChannelOK
    <3> QED
      BY <1>1, <2>1, <3>3, <3>4, WorkerAnswers, Zenon
  <2> QED
    BY <2>2, <2>3, Zenon
<1> QED
  BY <1>5, <1>6, <1>7, <1>8, <1>9, Zenon DEF WorkerStep

LEMMA TakenType ==
  ASSUME TypeInv
  PROVE  Taken \in Nat /\ query.offset - offset_remaining \in Nat /\ Len(returned) \in Nat
<1>1. offset_remaining \in 0..query.offset /\ query.offset \in Nat /\ Len(returned) \in Nat
  BY StreamState, Zenon
<1> QED
  BY <1>1 DEF Taken

LEMMA AnswerInit == ParallelInit => AnswerInv
<1> SUFFICES ASSUME ParallelInit, Faithful
             PROVE  StreamOK /\ (Draining => \A w \in Workers : w >= current => ChannelOK(w))
  BY Zenon DEF AnswerInv
<1>1. TypeInv /\ query \in Queries /\ Evaluates
  BY TypeInit, Zenon DEF ParallelInit, Faithful
<1>2. /\ query.offset \in Nat /\ SerialRows \in Seq(Pair) /\ Len(SerialRows) \in Nat /\ At(0) = 0
      /\ 0 # NumWorkers
  BY <1>1, StreamState, Serial, LenProperties, Chunks, Zenon
<1>3. Taken = 0
  <2>1. Len(returned) = 0
    BY EmptySeq, Zenon DEF ParallelInit
  <2>2. Taken = (query.offset - query.offset) + 0
    BY <2>1, Zenon DEF Taken, ParallelInit
  <2> QED
    BY <1>2, <2>2
<1>4. StreamOK
  <2>1. Taken <= Len(SerialRows)
    BY <1>2, <1>3
  <2>2. offset_remaining > 0 \/ query.offset = 0
    BY <1>2 DEF ParallelInit
  <2>3. ASSUME query.offset = 0 PROVE returned = SubSeq(SerialRows, query.offset + 1, Taken)
    <3>1. query.offset = Taken
      BY <1>3, <2>3
    <3>2. Taken \in Nat /\ Taken <= Taken /\ SerialRows \in Seq(Pair)
      BY <1>2, <1>3
    <3>3. SubSeq(SerialRows, Taken + 1, Taken) = <<>>
      BY <2>1, <3>2, EmptyPiece, Zenon
    <3> QED
      BY <3>1, <3>3, Zenon DEF ParallelInit
  <2>4. returned = <<>> /\ Len(returned) = 0
    BY EmptySeq, Zenon DEF ParallelInit
  <2>5. query.limit # NoLimit => remaining = query.limit - Len(returned)
    <3>1. query.limit \in Nat \cup {NoLimit} /\ remaining = query.limit
      BY <1>1, StreamState, Zenon DEF ParallelInit
    <3> QED
      BY <2>4, <3>1
  <2>6. /\ current = NumWorkers => Taken = Len(SerialRows)
        /\ stream = "ended" => remaining = 0 \/ Taken = Len(SerialRows)
        /\ stop => remaining = 0 \/ stream = "dropped"
    BY <1>2 DEF ParallelInit
  <2> QED
    BY <2>1, <2>2, <2>3, <2>4, <2>5, <2>6, Zenon DEF StreamOK
<1>5. ASSUME Draining, NEW w \in Workers PROVE ChannelOK(w)
  <2>1. w \in AllWorkers /\ StartOf(0) = 1
    BY <1>1, StreamState, Rows, Zenon
  <2>2. row_at[w] = StartOf(w) /\ match_at[w] = 0 /\ channel[w] = <<>>
    BY <2>1, Zenon DEF ParallelInit
  <2>3. working[w]
    <3>1. TakesParallelPath(query)
      BY <1>5 DEF Draining, ParallelInit
    <3> QED
      BY <2>1, <3>1, Zenon DEF ParallelInit
  <2>4. /\ Given(w) \in Nat /\ Given(w) <= Len(SerialRows) /\ At(StartOf(w) - 1) \in Nat
    BY <1>1, Positions, Zenon
  <2>5. Given(w) = At(StartOf(w) - 1)
    <3>1. ~(match_at[w] > 0)
      BY <2>2
    <3>2. Given(w) = At(StartOf(w) - 1) + 0
      BY <2>2, <3>1, Zenon DEF Given
    <3> QED
      BY <2>4, <3>2
  <2>6. From(w) = Given(w)
    <3>1. CASE w = current
      <4>1. w = 0
        BY <3>1, Zenon DEF ParallelInit
      <4>2. StartOf(w) - 1 = 0
        BY <2>1, <4>1
      <4> QED
        BY <1>2, <1>3, <2>5, <3>1, <4>2, Zenon DEF From
    <3>2. CASE w # current
      BY <2>5, <3>2, Zenon DEF From
    <3> QED
      BY <3>1, <3>2, Zenon
  <2>7. From(w) <= Given(w) /\ Given(w) <= Given(w)
    BY <2>4, <2>6
  <2>8. SubSeq(SerialRows, Given(w) + 1, Given(w)) = <<>>
    BY <1>2, <2>4, <2>7, EmptyPiece, Zenon
  <2> QED
    BY <2>2, <2>3, <2>6, <2>7, <2>8, Zenon DEF ChannelOK
<1> QED
  BY <1>4, <1>5, Zenon

\* A step of the stream keeps the query and the positions of the workers.
LEMMA StreamKeeps ==
  ASSUME UNCHANGED <<query, row_at, match_at, failed>>
  PROVE  /\ Workers' = Workers /\ NumWorkers' = NumWorkers /\ SerialRows' = SerialRows
         /\ Faithful' = Faithful
         /\ \A w : /\ StartOf(w)' = StartOf(w) /\ EndOf(w)' = EndOf(w) /\ Given(w)' = Given(w)
         /\ \A r : At(r)' = At(r)
<1>1. /\ Workers' = Workers /\ NumWorkers' = NumWorkers /\ SerialRows' = SerialRows
      /\ Evaluates' = Evaluates /\ (\A r : At(r)' = At(r))
      /\ \A w : /\ StartOf(w)' = StartOf(w) /\ EndOf(w)' = EndOf(w)
  BY QueryStays, Zenon
<1>2. Faithful' = Faithful
  BY <1>1, Zenon DEF Faithful, WhereFails
<1>3. \A w : Given(w)' = Given(w)
  BY <1>1, Zenon DEF Given
<1> QED
  BY <1>1, <1>2, <1>3, Zenon

LEMMA NextIsNoneAnswers ==
  ASSUME AnswerInv, NextIsNone
  PROVE  AnswerInv'
<1> SUFFICES ASSUME Faithful' PROVE StreamOK' /\ ~Draining'
  BY Zenon DEF AnswerInv
<1>1. /\ UNCHANGED <<query, row_at, match_at, failed, current, offset_remaining, remaining>>
      /\ returned' = returned /\ stream = "open" /\ stream' = "ended"
      /\ stop' = (stop \/ remaining = 0) /\ (remaining = 0 \/ current = NumWorkers)
  BY Zenon DEF NextIsNone, workerVars
<1>2. NumWorkers' = NumWorkers /\ SerialRows' = SerialRows /\ Faithful
  BY <1>1, StreamKeeps, Zenon
<1>3. StreamOK
  BY <1>2, Zenon DEF AnswerInv
<1>4. Taken' = Taken
  BY <1>1, Zenon DEF Taken
<1>5. "ended" # "open" /\ "open" # "dropped"
  OBVIOUS
<1>6. ~Draining'
  BY <1>1, <1>5, Zenon DEF Draining
<1>7. StreamOK'
  BY <1>1, <1>2, <1>3, <1>4, <1>5, Zenon DEF StreamOK
<1> QED
  BY <1>6, <1>7

LEMMA DropStreamAnswers ==
  ASSUME AnswerInv, DropStream
  PROVE  AnswerInv'
<1> SUFFICES ASSUME Faithful' PROVE StreamOK' /\ ~Draining'
  BY Zenon DEF AnswerInv
<1>1. /\ UNCHANGED <<query, row_at, match_at, failed, current, offset_remaining, remaining>>
      /\ returned' = returned /\ stream' = "dropped" /\ stop' = TRUE
  BY Zenon DEF DropStream, workerVars
<1>2. NumWorkers' = NumWorkers /\ SerialRows' = SerialRows /\ Faithful
  BY <1>1, StreamKeeps, Zenon
<1>3. StreamOK
  BY <1>2, Zenon DEF AnswerInv
<1>4. Taken' = Taken
  BY <1>1, Zenon DEF Taken
<1>5. "dropped" # "open" /\ "dropped" # "ended"
  OBVIOUS
<1>6. ~Draining'
  BY <1>1, <1>5, Zenon DEF Draining
<1>7. StreamOK'
  BY <1>1, <1>2, <1>3, <1>4, <1>5, Zenon DEF StreamOK
<1> QED
  BY <1>6, <1>7

\* The channel is drained and its worker has come to the end of its range: what has been
\* taken ends where the next range begins.
LEMMA NextChannelAnswers ==
  ASSUME TypeInv, AnswerInv, NextChannel
  PROVE  AnswerInv'
<1> SUFFICES ASSUME Faithful'
             PROVE  StreamOK' /\ (Draining' => \A w \in Workers' : w >= current' => ChannelOK(w)')
  BY Zenon DEF AnswerInv
<1> DEFINE next == NextWorker(current)
<1>1. /\ UNCHANGED <<query, row_at, match_at, failed>>
      /\ UNCHANGED <<working, channel, stop, offset_remaining, remaining, stream, returned>>
      /\ stream = "open" /\ remaining # 0 /\ current # NumWorkers
      /\ channel[current] = <<>> /\ ~working[current] /\ current' = next
  BY Zenon DEF NextChannel, workerVars
<1>2. /\ Workers' = Workers /\ NumWorkers' = NumWorkers /\ SerialRows' = SerialRows /\ Faithful
      /\ \A w : StartOf(w)' = StartOf(w) /\ EndOf(w)' = EndOf(w) /\ Given(w)' = Given(w)
      /\ \A r : At(r)' = At(r)
  BY <1>1, StreamKeeps, Zenon
<1>3. Taken' = Taken
  BY <1>1, Zenon DEF Taken
<1>4. StreamOK /\ \A w \in Workers : w >= current => ChannelOK(w)
  BY <1>1, <1>2, Zenon DEF AnswerInv, Draining
<1>5. current \in Workers /\ query \in Queries /\ Evaluates /\ Workers \subseteq Nat
  <2>1. current \in Workers /\ query \in Queries
    BY <1>1, StreamState, Zenon
  <2> QED
    BY <1>2, <2>1, Chunks DEF Faithful
<1>6. ChannelOK(current)
  <2>1. current >= current
    BY <1>5
  <2> QED
    BY <1>4, <1>5, <2>1, Zenon
<1>7. /\ next \in Workers \cup {NumWorkers} /\ next > current /\ EndOf(current) = Bound(next)
      /\ \A v \in Workers : v > current => v >= next
  BY <1>5, NextWorkers, Zenon
<1>8. Taken = At(Bound(next) - 1)
  <2>1. row_at[current] = EndOf(current)
    BY <1>1, <1>6, Zenon DEF ChannelOK
  <2>2. /\ Given(current) \in Nat /\ Given(current) <= Len(SerialRows)
        /\ Given(current) = At(EndOf(current) - 1)
    BY <1>5, <2>1, Positions, Zenon
  <2>3. From(current) = Taken /\ Taken \in Nat /\ SerialRows \in Seq(Pair)
    BY <1>5, TakenType, Serial, Zenon DEF From
  <2>4. Taken <= Given(current) /\ SubSeq(SerialRows, Taken + 1, Given(current)) = <<>>
    BY <1>1, <1>6, <2>3, Zenon DEF ChannelOK
  <2>5. Taken = Given(current)
    BY <2>2, <2>3, <2>4, EmptyPiece, Zenon
  <2> QED
    BY <1>7, <2>2, <2>5, Zenon
<1>9. next = NumWorkers => Taken = Len(SerialRows)
  <2>1. N \in Nat /\ Len(SerialRows) = At(N)
    BY <1>5, Rows, Serial, Zenon
  <2>2. (N + 1) - 1 = N
    BY <2>1
  <2> QED
    BY <1>8, <2>1, <2>2, Zenon DEF Bound
<1> HIDE DEF next
<1>10. StreamOK'
  BY <1>1, <1>2, <1>3, <1>4, <1>9, Zenon DEF StreamOK
<1>11. ASSUME NEW w \in Workers, w >= next PROVE ChannelOK(w)'
  <2>1. w > current /\ w >= current /\ w # current
    <3>1. w \in Nat /\ current \in Nat
      BY <1>5
    <3>2. next \in Nat
      BY <1>5, <1>7, Chunks
    <3> QED
      BY <1>7, <1>11, <3>1, <3>2
  <2>2. ChannelOK(w) /\ From(w) = At(StartOf(w) - 1)
    BY <1>4, <2>1, Zenon DEF From
  <2>3. From(w)' = From(w)
    <3>1. CASE w = next
      <4>1. w # NumWorkers
        BY <1>5, Chunks, Zenon
      <4>2. Taken = At(StartOf(w) - 1)
        BY <1>8, <3>1, <4>1, Zenon DEF Bound
      <4> QED
        BY <1>1, <1>3, <2>2, <3>1, <4>2, Zenon DEF From
    <3>2. CASE w # next
      BY <1>1, <1>2, <2>2, <3>2, Zenon DEF From
    <3> QED
      BY <3>1, <3>2, Zenon
  <2> QED
    BY <1>1, <1>2, <2>2, <2>3, Zenon DEF ChannelOK
<1> QED
  BY <1>1, <1>2, <1>10, <1>11, Zenon

\* The row at the head of the channel is the next one of the serial answer.
LEMMA NextIsRowAnswers ==
  ASSUME TypeInv, AnswerInv, NextIsRow
  PROVE  AnswerInv'
<1> SUFFICES ASSUME Faithful'
             PROVE  StreamOK' /\ (Draining' => \A w \in Workers' : w >= current' => ChannelOK(w)')
  BY Zenon DEF AnswerInv
<1>1. /\ UNCHANGED <<query, row_at, match_at, failed>>
      /\ UNCHANGED <<sending, working, current, stream>>
      /\ stream = "open" /\ remaining # 0 /\ current # NumWorkers /\ channel[current] # <<>>
      /\ channel' = [channel EXCEPT ![current] = Tail(channel[current])]
  BY Zenon DEF NextIsRow
<1>2. /\ Workers' = Workers /\ NumWorkers' = NumWorkers /\ SerialRows' = SerialRows /\ Faithful
      /\ \A w : StartOf(w)' = StartOf(w) /\ EndOf(w)' = EndOf(w) /\ Given(w)' = Given(w)
      /\ \A r : At(r)' = At(r)
  BY <1>1, StreamKeeps, Zenon
<1>3. StreamOK /\ \A w \in Workers : w >= current => ChannelOK(w)
  BY <1>1, <1>2, Zenon DEF AnswerInv, Draining
<1>4. /\ current \in Workers /\ query \in Queries /\ Evaluates /\ Workers \subseteq Nat
      /\ Workers \subseteq AllWorkers
  <2>1. current \in Workers /\ query \in Queries
    BY <1>1, StreamState, Zenon
  <2> QED
    BY <1>2, <2>1, Chunks DEF Faithful
<1>5. ChannelOK(current)
  <2>1. current >= current
    BY <1>4
  <2> QED
    BY <1>3, <1>4, <2>1, Zenon
<1>6. /\ Given(current) \in Nat /\ Given(current) <= Len(SerialRows) /\ Len(SerialRows) \in Nat
      /\ SerialRows \in Seq(Pair) /\ Taken \in Nat
  BY <1>4, Positions, Serial, TakenType, Zenon
<1>7. /\ Taken <= Given(current)
      /\ channel[current] = SubSeq(SerialRows, Taken + 1, Given(current))
  BY <1>5, Zenon DEF ChannelOK, From
<1>8. Taken # Given(current)
  BY <1>1, <1>6, <1>7, EmptyPiece, Zenon
<1>9. Taken < Given(current) /\ Taken + 1 <= Given(current) /\ Taken < Len(SerialRows)
      /\ Taken + 1 <= Len(SerialRows) /\ Taken <= Len(SerialRows)
  BY <1>6, <1>7, <1>8
<1>10. /\ Head(channel[current]) = SerialRows[Taken + 1]
       /\ Tail(channel[current]) = SubSeq(SerialRows, (Taken + 1) + 1, Given(current))
  BY <1>6, <1>7, <1>9, PieceShrinks, Zenon
<1>11. /\ query.offset \in Nat /\ offset_remaining \in 0..query.offset
       /\ query.limit \in Nat \cup {NoLimit} /\ Len(returned) \in Nat
       /\ remaining \in IF query.limit = NoLimit THEN {NoLimit} ELSE 0..query.limit
  BY StreamState, Zenon
<1>12. /\ Taken' = Taken + 1
       /\ IF offset_remaining' > 0 THEN returned' = <<>>
                                   ELSE returned' = SubSeq(SerialRows, query.offset + 1, Taken + 1)
       /\ query.limit # NoLimit => remaining' = query.limit - Len(returned')
       /\ stop' => remaining' = 0
  <2>1. stop => remaining = 0
    BY <1>1, <1>3 DEF StreamOK
  <2>2. query.limit # NoLimit => remaining = query.limit - Len(returned)
    BY <1>3, Zenon DEF StreamOK
  <2>3. CASE offset_remaining > 0
    <3>1. /\ offset_remaining' = offset_remaining - 1 /\ returned' = returned
          /\ remaining' = remaining /\ stop' = stop
      BY <2>3, Zenon DEF NextIsRow
    <3>2. returned = <<>>
      BY <1>3, <2>3, Zenon DEF StreamOK
    <3>3. Taken' = (query.offset - (offset_remaining - 1)) + Len(returned)
      BY <1>1, <3>1, Zenon DEF Taken
    <3>4. Taken' = Taken + 1
      BY <1>11, <2>3, <3>3 DEF Taken
    <3>5. ASSUME ~(offset_remaining' > 0)
          PROVE  returned' = SubSeq(SerialRows, query.offset + 1, Taken + 1)
      <4>1. Len(returned) = 0
        BY <3>2, EmptySeq, Zenon
      <4>2. Taken + 1 = query.offset
        BY <1>11, <2>3, <3>1, <3>3, <3>4, <3>5, <4>1
      <4>3. Taken + 1 \in Nat /\ Taken + 1 <= Taken + 1
        BY <1>6
      <4>4. SubSeq(SerialRows, (Taken + 1) + 1, Taken + 1) = <<>>
        BY <1>6, <1>9, <4>3, EmptyPiece, Zenon
      <4> QED
        BY <3>1, <3>2, <4>2, <4>4, Zenon
    <3> QED
      BY <2>1, <2>2, <3>1, <3>2, <3>4, <3>5, Zenon
  <2>4. CASE ~(offset_remaining > 0)
    <3>1. /\ returned' = Append(returned, Head(channel[current]))
          /\ remaining' = IF remaining = NoLimit THEN NoLimit ELSE remaining - 1
          /\ stop' = (stop \/ remaining = 1) /\ offset_remaining' = offset_remaining
      BY <2>4, Zenon DEF NextIsRow
    <3>2. returned = SubSeq(SerialRows, query.offset + 1, Taken)
      BY <1>3, <2>4, Zenon DEF StreamOK
    <3>3. offset_remaining = 0 /\ query.offset <= Taken /\ Taken = query.offset + Len(returned)
      BY <1>11, <2>4 DEF Taken
    <3>4. returned' = SubSeq(SerialRows, query.offset + 1, Taken + 1)
      <4>1. SubSeq(SerialRows, query.offset + 1, Taken + 1) =
              Append(SubSeq(SerialRows, query.offset + 1, Taken), SerialRows[Taken + 1])
        BY <1>6, <1>9, <1>11, <3>3, PieceGrows, Zenon
      <4> QED
        BY <1>10, <3>1, <3>2, <4>1, Zenon
    <3>5. Len(returned') = Len(returned) + 1
      <4>1. Head(channel[current]) \in Pair
        <5>1. channel[current] \in Seq(Pair)
          BY <1>4, StreamState, Zenon
        <5> QED
          BY <1>1, <5>1, HeadTailProperties, Zenon
      <4>2. returned \in Seq(Pair)
        BY StreamState, Zenon
      <4> QED
        BY <3>1, <4>1, <4>2, AppendProperties, Zenon
    <3>6. Taken' = Taken + 1
      <4>1. Taken' = (query.offset - offset_remaining) + Len(returned')
        BY <1>1, <3>1, Zenon DEF Taken
      <4> QED
        BY <1>11, <3>3, <3>5, <4>1
    <3>7. query.limit # NoLimit => remaining' = query.limit - Len(returned')
      BY <1>11, <2>2, <3>1, <3>5 DEF NoLimit
    <3>8. stop' => remaining' = 0
      <4>1. stop' => remaining = 1
        BY <1>1, <2>1, <3>1, Zenon
      <4>2. remaining = 1 => remaining' = 0
        BY <3>1 DEF NoLimit
      <4> QED
        BY <4>1, <4>2, Zenon
    <3>9. ~(offset_remaining' > 0)
      BY <2>4, <3>1, Zenon
    <3> QED
      BY <3>4, <3>6, <3>7, <3>8, <3>9, Zenon
  <2> QED
    BY <2>3, <2>4, Zenon
<1>13. StreamOK'
  <2>1. stream' # "ended"
    BY <1>1
  <2> QED
    BY <1>1, <1>2, <1>9, <1>12, <2>1, Zenon DEF StreamOK
<1>14. ASSUME NEW w \in Workers, w >= current PROVE ChannelOK(w)'
  <2>1. ChannelOK(w)
    BY <1>3, <1>14, Zenon
  <2>2. channel \in [AllWorkers -> Seq(Pair)]
    BY StreamState, Zenon
  <2>3. channel'[w] = IF w = current THEN Tail(channel[current]) ELSE channel[w]
    BY <1>1, <1>4, <2>2, Zenon
  <2>4. CASE w = current
    <3>1. From(w)' = Taken + 1
      BY <1>1, <1>12, <2>4, Zenon DEF From
    <3> QED
      BY <1>1, <1>2, <1>9, <1>10, <2>1, <2>3, <2>4, <3>1, Zenon DEF ChannelOK
  <2>5. CASE w # current
    <3>1. From(w)' = From(w)
      BY <1>1, <1>2, <2>5, Zenon DEF From
    <3> QED
      BY <1>1, <1>2, <2>1, <2>3, <2>5, <3>1, Zenon DEF ChannelOK
  <2> QED
    BY <2>4, <2>5, Zenon
<1> QED
  BY <1>1, <1>2, <1>13, <1>14, Zenon

LEMMA AnswerStep == TypeInv /\ AnswerInv /\ [ParallelNext]_parallelVars => AnswerInv'
<1> SUFFICES ASSUME TypeInv, AnswerInv, [ParallelNext]_parallelVars PROVE AnswerInv'
  OBVIOUS
<1>1. CASE UNCHANGED parallelVars
  <2>1. /\ UNCHANGED <<query, row_at, match_at, failed>> /\ returned' = returned
        /\ UNCHANGED <<working, channel, stop, current, offset_remaining, remaining, stream>>
    BY <1>1, Zenon DEF parallelVars, workerVars, streamVars
  <2>2. /\ Workers' = Workers /\ NumWorkers' = NumWorkers /\ SerialRows' = SerialRows
        /\ Faithful' = Faithful
        /\ \A w : StartOf(w)' = StartOf(w) /\ EndOf(w)' = EndOf(w) /\ Given(w)' = Given(w)
        /\ \A r : At(r)' = At(r)
    BY <2>1, StreamKeeps, Zenon
  <2>3. Taken' = Taken
    BY <2>1, Zenon DEF Taken
  <2>4. StreamOK' = StreamOK /\ Draining' = Draining
    BY <2>1, <2>2, <2>3, Zenon DEF StreamOK, Draining
  <2>5. \A w : ChannelOK(w)' = ChannelOK(w)
    <3> TAKE w
    <3>1. From(w)' = From(w)
      BY <2>1, <2>2, <2>3, Zenon DEF From
    <3> QED
      BY <2>1, <2>2, <3>1, Zenon DEF ChannelOK
  <2> QED
    BY <2>1, <2>2, <2>4, <2>5, Zenon DEF AnswerInv
<1> QED
  BY <1>1, WorkerStepAnswers, NextIsNoneAnswers, NextIsRowAnswers, NextChannelAnswers,
     DropStreamAnswers, Zenon DEF ParallelNext, Pull

\* A shorter piece is a prefix of a longer one.
LEMMA PiecePrefix ==
  ASSUME NEW X, NEW s \in Seq(X), NEW a \in Nat, NEW b \in Nat, NEW c \in Nat,
         a <= b, b <= c, c <= Len(s)
  PROVE  IsPrefix(SubSeq(s, a + 1, b), SubSeq(s, a + 1, c))
<1> DEFINE p == SubSeq(s, a + 1, b)
           q == SubSeq(s, a + 1, c)
           q1 == SubSeq(q, 1, b - a)
<1>1. Len(s) \in Nat
  BY LenProperties, Zenon
<1>2. a <= c /\ b <= Len(s) /\ b - a \in Nat /\ b - a <= c - a /\ 1..(b - a) \subseteq 1..(c - a)
      /\ b - a \in 0..(c - a)
  BY <1>1
<1>3. p \in Seq(X) /\ Len(p) = b - a /\ \A i \in 1..(b - a) : p[i] = s[a + i]
  BY <1>2, Piece, Zenon
<1>4. q \in Seq(X) /\ Len(q) = c - a /\ \A i \in 1..(c - a) : q[i] = s[a + i]
  BY <1>2, Piece, Zenon
<1> HIDE DEF p, q
<1>5. SubSeq(p, 1, Len(p)) = p
  BY <1>3, SubSeqFull, Zenon
<1>6. q1 \in Seq(X) /\ Len(q1) = b - a /\ \A i \in 1..(b - a) : q1[i] = q[i]
  <2>1. 0 \in Nat /\ 0 <= b - a /\ b - a <= Len(q) /\ 0 + 1 = 1 /\ (b - a) - 0 = b - a
    BY <1>2, <1>4
  <2>2. /\ SubSeq(q, 0 + 1, b - a) \in Seq(X) /\ Len(SubSeq(q, 0 + 1, b - a)) = (b - a) - 0
        /\ \A i \in 1..((b - a) - 0) : SubSeq(q, 0 + 1, b - a)[i] = q[0 + i]
    BY <1>2, <1>4, <2>1, Piece, ZenonT(60)
  <2>3. \A i \in 1..(b - a) : 0 + i = i
    OBVIOUS
  <2> QED
    BY <2>1, <2>2, <2>3, Zenon
<1> HIDE DEF q1
<1>7. \A i \in 1..Len(p) : p[i] = q1[i]
  BY <1>2, <1>3, <1>4, <1>6, Zenon
<1>8. p = q1
  BY <1>3, <1>6, <1>7, SeqEqual, Zenon
<1>9. Len(p) <= Len(q)
  BY <1>2, <1>3, <1>4, Zenon
<1> QED
  BY <1>3, <1>5, <1>8, <1>9, Zenon DEF IsPrefix, p, q, q1

LEMMA AnswerIsSerial == TypeInv /\ AnswerInv => SameAsSerial
<1> SUFFICES ASSUME TypeInv, AnswerInv, Faithful
             PROVE  /\ IsPrefix(returned, SerialAnswer)
                    /\ stream = "ended" => returned = SerialAnswer
  BY Zenon DEF SameAsSerial, Faithful
<1> DEFINE total == Len(SerialRows)
           last == IF query.limit = NoLimit THEN total ELSE Min({total, query.offset + query.limit})
           from == query.offset
<1>1. /\ query \in Queries /\ from \in Nat /\ offset_remaining \in 0..from
      /\ query.limit \in Nat \cup {NoLimit} /\ Len(returned) \in Nat /\ returned \in Seq(Pair)
      /\ remaining \in IF query.limit = NoLimit THEN {NoLimit} ELSE 0..query.limit
  BY StreamState, Zenon
<1>2. SerialRows \in Seq(Pair) /\ total \in Nat
  BY <1>1, Serial, LenProperties, Zenon DEF Faithful
<1>3. /\ StreamOK /\ Taken \in Nat
  BY TakenType, Zenon DEF AnswerInv
<1>4. /\ Taken <= total
      /\ query.limit # NoLimit => remaining = query.limit - Len(returned)
      /\ stream = "ended" => remaining = 0 \/ Taken = total
      /\ Taken = (from - offset_remaining) + Len(returned)
  BY <1>3, Zenon DEF StreamOK, Taken
<1>5. SerialAnswer = SubSeq(SerialRows, from + 1, last)
  BY Zenon DEF SerialAnswer
<1> HIDE DEF total
<1>6. /\ last \in Nat /\ last <= total
      /\ query.limit = NoLimit => last = total
      /\ query.limit # NoLimit => last \in {total, from + query.limit} /\ last <= from + query.limit
  <2>1. CASE query.limit = NoLimit
    BY <1>2, <2>1
  <2>2. CASE query.limit # NoLimit
    <3>1. from + query.limit \in Nat
      BY <1>1, <2>2
    <3>2. {total, from + query.limit} \subseteq Nat /\ {total, from + query.limit} # {}
      BY <1>2, <3>1
    <3>3. /\ last \in {total, from + query.limit} /\ last <= total
          /\ last <= from + query.limit
      BY <2>2, <3>2, MinOf, Zenon
    <3>4. last \in Nat
      BY <3>2, <3>3, Zenon
    <3> QED
      BY <2>2, <3>3, <3>4, Zenon
  <2> QED
    BY <2>1, <2>2, Zenon
<1> HIDE DEF last, from
<1>7. CASE offset_remaining > 0
  <2>1. returned = <<>>
    BY <1>3, <1>7, Zenon DEF StreamOK
  <2>2. Len(returned) = 0
    BY <2>1, EmptySeq, Zenon
  <2>3. IsPrefix(returned, SerialAnswer)
    <3>1. \A i \in (from + 1)..last : SerialRows[i] \in Pair
      <4>1. \A i \in (from + 1)..last : i \in 1..total
        BY <1>1, <1>2, <1>6
      <4> QED
        BY <1>2, <4>1, ElementOfSeq, Zenon DEF total
    <3>2. from + 1 \in Int /\ last \in Int
      BY <1>1, <1>6
    <3>3. SerialAnswer \in Seq(Pair)
      BY <1>5, <3>1, <3>2, SubSeqProperties, Zenon
    <3>4. Len(SerialAnswer) \in Nat
      BY <3>3, LenProperties, Zenon
    <3>5. Len(returned) <= Len(SerialAnswer)
      BY <2>2, <3>4
    <3>6. 1 \in Int /\ 0 \in Int /\ 0 < 1
      OBVIOUS
    <3>7. SubSeq(returned, 1, 0) = <<>> /\ SubSeq(SerialAnswer, 1, 0) = <<>>
      BY <3>6, SubSeqEmpty, Zenon
    <3> QED
      BY <2>2, <3>5, <3>7, Zenon DEF IsPrefix
  <2>4. ASSUME stream = "ended" PROVE SerialAnswer = <<>>
    <3>1. last < from + 1
      <4>1. CASE Taken = total
        BY <1>1, <1>2, <1>4, <1>6, <1>7, <2>2, <4>1
      <4>2. CASE remaining = 0
        <5>1. query.limit # NoLimit /\ query.limit \in Nat
          BY <1>1, <4>2 DEF NoLimit
        <5>2. query.limit = 0
          BY <1>4, <2>2, <4>2, <5>1
        <5> QED
          BY <1>1, <1>6, <5>1, <5>2
      <4> QED
        BY <1>4, <2>4, <4>1, <4>2, Zenon
    <3>2. from + 1 \in Int /\ last \in Int
      BY <1>1, <1>6
    <3> QED
      BY <1>5, <3>1, <3>2, SubSeqEmpty, Zenon
  <2> QED
    BY <2>1, <2>3, <2>4, Zenon
<1>8. CASE ~(offset_remaining > 0)
  <2>1. returned = SubSeq(SerialRows, from + 1, Taken)
    BY <1>3, <1>8, Zenon DEF StreamOK, from
  <2>2. Taken = from + Len(returned) /\ from <= Taken
    BY <1>1, <1>4, <1>8
  <2>3. Taken <= last
    <3>1. CASE query.limit = NoLimit
      BY <1>4, <1>6, <3>1
    <3>2. CASE query.limit # NoLimit
      <4>1. query.limit \in Nat /\ remaining \in 0..query.limit
        BY <1>1, <3>2
      <4>2. Taken <= from + query.limit
        BY <1>1, <1>4, <2>2, <3>2, <4>1
      <4> QED
        BY <1>4, <1>6, <3>2, <4>2
    <3> QED
      BY <3>1, <3>2, Zenon
  <2>4. IsPrefix(returned, SerialAnswer)
    <3>1. last <= Len(SerialRows)
      BY <1>6, Zenon DEF total
    <3> QED
      BY <1>1, <1>2, <1>3, <1>5, <1>6, <2>1, <2>2, <2>3, <3>1, PiecePrefix, Zenon
  <2>5. ASSUME stream = "ended" PROVE Taken = last
    <3>1. CASE Taken = total
      BY <1>2, <1>3, <1>6, <2>3, <3>1
    <3>2. CASE remaining = 0
      <4>1. query.limit # NoLimit /\ query.limit \in Nat
        BY <1>1, <3>2 DEF NoLimit
      <4>2. query.limit = Len(returned)
        BY <1>1, <1>4, <3>2, <4>1
      <4> QED
        BY <1>1, <1>3, <1>6, <2>2, <2>3, <4>1, <4>2
    <3> QED
      BY <1>4, <2>5, <3>1, <3>2, Zenon
  <2> QED
    BY <1>5, <2>1, <2>4, <2>5, Zenon
<1> QED
  BY <1>7, <1>8, Zenon

\* For every table, however it is spread over leaves, every number of workers, depth of
\* the channels, LIMIT and OFFSET: unless a worker or an expression fails, the parallel
\* scan and the parallel hash join hand out what the serial path would, and all of it by
\* the time RowStream::next returns None.
THEOREM ParallelSameAsSerial == ParallelSpec => []SameAsSerial
<1>1. ParallelInit => AnswerInv
  BY AnswerInit, Zenon
<1>2. TypeInv /\ AnswerInv /\ [ParallelNext]_parallelVars => AnswerInv'
  BY AnswerStep, Zenon
<1>3. TypeInv /\ AnswerInv => SameAsSerial
  BY AnswerIsSerial, Zenon
<1> QED
  BY <1>1, <1>2, <1>3, TypesHold, PTL DEF ParallelSpec
=============================================================================
