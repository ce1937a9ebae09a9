----------------------------- MODULE DataLemmas -----------------------------
(***************************************************************************)
(* What the proofs of the components need to know of numbers and           *)
(* sequences: the least of a set, which the searches of the kernel look    *)
(* for, and a sequence as a stack.                                         *)
(***************************************************************************)
EXTENDS Integers, Sequences, SequencesExt, SequenceTheorems, TLAPS,
        FiniteSetTheorems, WellFoundedInduction

(* A set of numbers that is not empty has a least one.                     *)
LEMMA LeastNumber ==
    ASSUME NEW S \in SUBSET Nat, S # {}
    PROVE  \E x \in S : \A y \in S : x <= y
<1>1. PICK x \in S : \A y \in S : ~ (<<y, x>> \in OpToRel(<, Nat))
  BY NatLessThanWellFounded, WFMin
<1>2. OpToRel(<, Nat) = {ss \in Nat \X Nat : ss[1] < ss[2]}
  BY DEF OpToRel
<1>3. ASSUME NEW y \in S PROVE x <= y
  <2>1. <<y, x>> \in Nat \X Nat
    OBVIOUS
  <2>2. ~ (<<y, x>>[1] < <<y, x>>[2])
    BY <1>1, <1>2, <2>1
  <2>. QED
    BY <2>2
<1>. QED
  BY <1>3

(* A set of numbers that has a bound and is not empty has a greatest one.  *)
LEMMA GreatestNumber ==
    ASSUME NEW N \in Nat, NEW S \in SUBSET (0 .. N), S # {}
    PROVE  \E x \in S : \A y \in S : y <= x
<1>. DEFINE D == {N - x : x \in S}
<1>1. D \in SUBSET Nat /\ D # {}
  <2>1. \A x \in S : x \in 0 .. N /\ N - x \in Nat
    OBVIOUS
  <2>2. \E x \in S : N - x \in D
    OBVIOUS
  <2>. QED
    BY <2>1, <2>2
<1>2. PICK d \in D : \A e \in D : d <= e
  BY <1>1, LeastNumber
<1>3. PICK x \in S : d = N - x
  BY <1>2
<1>4. ASSUME NEW y \in S PROVE y <= x
  <2>1. N - y \in D
    OBVIOUS
  <2>2. N - x <= N - y
    BY <1>2, <1>3, <2>1
  <2>. QED
    BY <2>2
<1>. QED
  BY <1>4

(* What 0 has, and every number hands on to the next, all have.            *)
LEMMA CountingUp ==
    ASSUME NEW N \in Nat, NEW S, 0 \in S, \A n \in 0 .. N : n \in S /\ n < N => n + 1 \in S
    PROVE  \A n \in 0 .. N : n \in S
<1>. DEFINE B == {n \in Nat : n <= N /\ n \notin S}
<1>. SUFFICES ASSUME B # {} PROVE FALSE
  OBVIOUS
<1>1. PICK n \in B : \A m \in B : n <= m
  BY LeastNumber
<1>2. n \in Nat /\ n <= N /\ n \notin S /\ n # 0
  BY <1>1
<1>3. n - 1 \in 0 .. N /\ n - 1 < N /\ n - 1 \notin B /\ (n - 1) + 1 = n
  BY <1>1, <1>2
<1>. QED
  BY <1>2, <1>3

(* The elements of a sequence are those at its places.                     *)
LEMMA ElementsOf ==
    ASSUME NEW S, NEW s \in Seq(S)
    PROVE  \A x : x \in ToSet(s) <=> \E k \in 1 .. Len(s) : s[k] = x
BY DEF ToSet

(* A sequence without its last element.                                    *)
LEMMA FrontOf ==
    ASSUME NEW S, NEW s \in Seq(S), Len(s) >= 1
    PROVE  /\ Front(s) \in Seq(S)
           /\ Len(Front(s)) = Len(s) - 1
           /\ \A k \in 1 .. Len(s) - 1 : Front(s)[k] = s[k]
<1>1. \A k \in 1 .. Len(s) - 1 : s[k] \in S
  BY ElementOfSeq
<1>2. Len(s) - 1 \in Nat
  BY LenProperties
<1>. DEFINE n == Len(s) - 1
<1>. HIDE DEF n
<1>3. n \in Nat /\ \A k \in 1 .. n : s[k] \in S
  BY <1>1, <1>2 DEF n
<1>4. /\ SubSeq(s, 1, n) \in Seq(S)
      /\ Len(SubSeq(s, 1, n)) = IF 1 <= n THEN n - 1 + 1 ELSE 0
      /\ \A k \in 1 .. n - 1 + 1 : SubSeq(s, 1, n)[k] = s[1 + k - 1]
  BY <1>3, SubSeqProperties
<1>5. Len(SubSeq(s, 1, n)) = n /\ \A k \in 1 .. n : SubSeq(s, 1, n)[k] = s[k]
  BY <1>3, <1>4
<1>. QED
  BY <1>4, <1>5 DEF Front, n

(* There is the function that a definition by recursion on 0 .. N speaks   *)
(* of: it begins with zero and goes on by step.                            *)
Recursion(N, T, zero, step) ==
    \E f \in [0 .. N -> T] :
        /\ f[0] = zero
        /\ \A n \in 1 .. N : f[n] = step[n][f[n - 1]]

LEMMA RecursionOn ==
    ASSUME NEW N \in Nat, NEW T, NEW zero \in T, NEW step \in [1 .. N -> [T -> T]]
    PROVE  Recursion(N, T, zero, step)
<1>. DEFINE Upto(m) == \E f \in [0 .. m -> T] :
                          /\ f[0] = zero
                          /\ \A n \in 1 .. m : f[n] = step[n][f[n - 1]]
<1>1. Upto(0)
  <2>. DEFINE f == [n \in 0 .. 0 |-> zero]
  <2>1. f \in [0 .. 0 -> T] /\ f[0] = zero /\ \A n \in 1 .. 0 : f[n] = step[n][f[n - 1]]
    OBVIOUS
  <2>. QED
    BY <2>1
<1>2. ASSUME NEW m \in Nat, m < N, Upto(m) PROVE Upto(m + 1)
  <2>1. PICK f \in [0 .. m -> T] : /\ f[0] = zero
                                   /\ \A n \in 1 .. m : f[n] = step[n][f[n - 1]]
    BY <1>2
  <2>. DEFINE g == [n \in 0 .. m + 1 |-> IF n = m + 1 THEN step[m + 1][f[m]] ELSE f[n]]
  <2>2. f[m] \in T /\ step[m + 1][f[m]] \in T
    <3>1. f[m] \in T /\ m + 1 \in 1 .. N
      BY <1>2, <2>1
    <3>. QED
      BY <3>1
  <2>3. g \in [0 .. m + 1 -> T]
    BY <2>2
  <2>4. g[0] = zero /\ g[m + 1] = step[m + 1][f[m]] /\ \A n \in 0 .. m : g[n] = f[n]
    BY <2>1
  <2>. HIDE DEF g
  <2>5. \A n \in 1 .. m + 1 : g[n] = step[n][g[n - 1]]
    <3>. TAKE n \in 1 .. m + 1
    <3>1. CASE n = m + 1
      BY <2>4, <3>1
    <3>2. CASE n # m + 1
      <4>1. n \in 1 .. m /\ n \in 0 .. m /\ n - 1 \in 0 .. m
        BY <3>2
      <4>. QED
        BY <2>1, <2>4, <4>1
    <3>. QED
      BY <3>1, <3>2
  <2>. QED
    BY <2>3, <2>4, <2>5
<1>3. \A m \in 0 .. N : Upto(m)
  <2>. DEFINE B == {m \in Nat : m <= N /\ ~ Upto(m)}
  <2>. HIDE DEF Upto
  <2>. SUFFICES ASSUME B # {} PROVE FALSE
    OBVIOUS
  <2>1. PICK m \in B : \A k \in B : m <= k
    BY LeastNumber
  <2>2. m \in Nat /\ m <= N /\ ~ Upto(m) /\ m # 0
    BY <1>1, <2>1
  <2>3. m - 1 \in Nat /\ m - 1 < N /\ m - 1 \notin B /\ (m - 1) + 1 = m
    BY <2>1, <2>2
  <2>4. Upto(m - 1)
    BY <2>3
  <2>. QED
    BY <1>2, <2>2, <2>3, <2>4
<1>. QED
  BY <1>3 DEF Recursion

(* A sequence is built by appending its elements in turn.                  *)
LEMMA PrefixGrows ==
    ASSUME NEW S, NEW s \in Seq(S), NEW k \in 1 .. Len(s)
    PROVE  Append(SubSeq(s, 1, k - 1), s[k]) = SubSeq(s, 1, k)
<1>1. \A i \in 1 .. Len(s) : s[i] \in S
  BY ElementOfSeq
<1>2. Len(s) \in Nat
  BY LenProperties
<1>. DEFINE a == SubSeq(s, 1, k - 1)
            b == SubSeq(s, 1, k)
<1>3. a \in Seq(S) /\ Len(a) = k - 1 /\ \A i \in 1 .. k - 1 : a[i] = s[i]
  <2>1. \A i \in 1 .. k - 1 : s[i] \in S
    BY <1>1, <1>2
  <2>2. /\ a \in Seq(S)
        /\ Len(a) = IF 1 <= k - 1 THEN (k - 1) - 1 + 1 ELSE 0
        /\ \A i \in 1 .. (k - 1) - 1 + 1 : a[i] = s[1 + i - 1]
    BY <2>1, SubSeqProperties, k - 1 \in Int
  <2>. QED
    BY <2>2
<1>4. b \in Seq(S) /\ Len(b) = k /\ \A i \in 1 .. k : b[i] = s[i]
  <2>1. \A i \in 1 .. k : s[i] \in S
    BY <1>1, <1>2
  <2>2. /\ b \in Seq(S)
        /\ Len(b) = IF 1 <= k THEN k - 1 + 1 ELSE 0
        /\ \A i \in 1 .. k - 1 + 1 : b[i] = s[1 + i - 1]
    BY <2>1, SubSeqProperties
  <2>. QED
    BY <2>2
<1>. HIDE DEF a, b
<1>5. /\ Append(a, s[k]) \in Seq(S) /\ Len(Append(a, s[k])) = k
      /\ \A i \in 1 .. k - 1 : Append(a, s[k])[i] = a[i]
      /\ Append(a, s[k])[k] = s[k]
  BY <1>1, <1>3, AppendProperties
<1>6. \A i \in 1 .. k : Append(a, s[k])[i] = b[i]
  BY <1>3, <1>4, <1>5
<1>. QED
  BY <1>4, <1>5, <1>6, SeqEqual DEF a, b

(* A sequence in which no element is twice has as many elements as places, *)
(* and no more than there are.                                             *)
LEMMA DistinctElements ==
    ASSUME NEW S, IsFiniteSet(S), NEW s \in Seq(S),
           \A k, l \in 1 .. Len(s) : s[k] = s[l] => k = l
    PROVE  Cardinality(ToSet(s)) = Len(s) /\ Len(s) <= Cardinality(S)
<1>1. /\ Len(s) \in Nat /\ DOMAIN s = 1 .. Len(s)
      /\ s \in [1 .. Len(s) -> S]
  BY LenProperties
<1>2. IsFiniteSet(1 .. Len(s)) /\ Cardinality(1 .. Len(s)) = Len(s)
  BY <1>1, FS_Interval
<1>3. s \in Injection(1 .. Len(s), S)
  BY <1>1 DEF Injection, IsInjective
<1>4. Len(s) <= Cardinality(S)
  BY <1>2, <1>3, FS_Injection
<1>5. s \in Bijection(1 .. Len(s), ToSet(s))
  <2>1. s \in [1 .. Len(s) -> ToSet(s)]
    BY <1>1 DEF ToSet
  <2>2. \A x \in ToSet(s) : \E k \in 1 .. Len(s) : s[k] = x
    BY <1>1 DEF ToSet
  <2>. QED
    BY <1>1, <2>1, <2>2 DEF Bijection, Injection, Surjection, IsInjective
<1>6. Cardinality(ToSet(s)) = Cardinality(1 .. Len(s))
  BY <1>2, <1>5, FS_Bijection DEF ExistsBijection
<1>. QED
  BY <1>2, <1>4, <1>6
(* What has been read of a sequence and what is read next.                 *)
LEMMA ReadOn ==
    ASSUME NEW S, NEW s \in Seq(S), NEW m \in 0 .. Len(s), NEW n \in m .. Len(s)
    PROVE  /\ SubSeq(s, 1, m) \in Seq(S) /\ SubSeq(s, m + 1, n) \in Seq(S)
           /\ SubSeq(s, 1, m) \o SubSeq(s, m + 1, n) = SubSeq(s, 1, n)
           /\ SubSeq(s, 1, 0) = <<>> /\ SubSeq(s, 1, Len(s)) = s
<1>1. Len(s) \in Nat /\ m \in Nat /\ n \in Nat /\ \A i \in 1 .. Len(s) : s[i] \in S
  BY LenProperties, ElementOfSeq
<1>. DEFINE a == SubSeq(s, 1, m)
            b == SubSeq(s, m + 1, n)
            c == SubSeq(s, 1, n)
<1>2. /\ a \in Seq(S) /\ Len(a) = m /\ \A i \in 1 .. m : a[i] = s[i]
  <2>1. \A i \in 1 .. m : s[i] \in S
    BY <1>1
  <2>2. /\ a \in Seq(S) /\ Len(a) = IF 1 <= m THEN m - 1 + 1 ELSE 0
        /\ \A i \in 1 .. m - 1 + 1 : a[i] = s[1 + i - 1]
    BY <1>1, <2>1, SubSeqProperties
  <2>. QED
    BY <1>1, <2>2
<1>3. /\ b \in Seq(S) /\ Len(b) = n - m /\ \A i \in 1 .. n - m : b[i] = s[m + i]
  <2>1. \A i \in m + 1 .. n : s[i] \in S
    BY <1>1
  <2>2. /\ b \in Seq(S) /\ Len(b) = IF m + 1 <= n THEN n - (m + 1) + 1 ELSE 0
        /\ \A i \in 1 .. n - (m + 1) + 1 : b[i] = s[(m + 1) + i - 1]
    BY <1>1, <2>1, SubSeqProperties, m + 1 \in Int
  <2>3. Len(b) = n - m
    BY <1>1, <2>2
  <2>4. \A i \in 1 .. n - m : i \in 1 .. n - (m + 1) + 1 /\ (m + 1) + i - 1 = m + i
    BY <1>1
  <2>. QED
    BY <2>2, <2>3, <2>4
<1>4. /\ c \in Seq(S) /\ Len(c) = n /\ \A i \in 1 .. n : c[i] = s[i]
  <2>1. \A i \in 1 .. n : s[i] \in S
    BY <1>1
  <2>2. /\ c \in Seq(S) /\ Len(c) = IF 1 <= n THEN n - 1 + 1 ELSE 0
        /\ \A i \in 1 .. n - 1 + 1 : c[i] = s[1 + i - 1]
    BY <1>1, <2>1, SubSeqProperties
  <2>. QED
    BY <1>1, <2>2
<1>5. SubSeq(s, 1, Len(s)) = s
  <2>. DEFINE d == SubSeq(s, 1, Len(s))
  <2>2. /\ d \in Seq(S) /\ Len(d) = IF 1 <= Len(s) THEN Len(s) - 1 + 1 ELSE 0
        /\ \A i \in 1 .. Len(s) - 1 + 1 : d[i] = s[1 + i - 1]
    BY <1>1, SubSeqProperties
  <2>3. Len(d) = Len(s) /\ \A i \in 1 .. Len(s) : d[i] = s[i]
    BY <1>1, <2>2
  <2>. HIDE DEF d
  <2>4. d = s
    BY <2>2, <2>3, SeqEqual DEF d
  <2>. QED
    BY <2>4 DEF d
<1>6. SubSeq(s, 1, 0) = <<>>
  BY SubSeqEmpty
<1>. HIDE DEF a, b, c
<1>7. /\ a \o b \in Seq(S) /\ Len(a \o b) = m + (n - m)
      /\ \A i \in 1 .. m + (n - m) : (a \o b)[i] = IF i <= m THEN a[i] ELSE b[i - m]
  BY <1>2, <1>3, ConcatProperties
<1>8. Len(a \o b) = n /\ \A i \in 1 .. n : (a \o b)[i] = s[i]
  <2>1. ASSUME NEW i \in 1 .. n PROVE (a \o b)[i] = s[i]
    <3>1. i \in 1 .. m + (n - m)
      BY <1>1
    <3>2. CASE i <= m
      BY <1>1, <1>2, <1>7, <3>1, <3>2
    <3>3. CASE ~ (i <= m)
      <4>1. i - m \in 1 .. n - m /\ m + (i - m) = i
        BY <1>1, <3>3
      <4>. QED
        BY <1>3, <1>7, <3>1, <3>3, <4>1
    <3>. QED
      BY <3>2, <3>3
  <2>. QED
    BY <1>1, <1>7, <2>1
<1>9. a \o b = c
  BY <1>4, <1>7, <1>8, SeqEqual
<1>. QED
  BY <1>2, <1>3, <1>5, <1>6, <1>9 DEF a, b, c

(* Sequences put one behind another, counted up from none.                 *)
Flattening(S, ss, N, f) ==
    /\ N \in Nat /\ DOMAIN ss = 1 .. N /\ Len(ss) = N /\ (N = 0 => ss = <<>>)
    /\ f \in [0 .. N -> Seq(S)] /\ f[0] = <<>>
    /\ \A n \in 1 .. N : ss[n] \in Seq(S) /\ f[n] = f[n - 1] \o ss[n]

LEMMA FlattenIs ==
    ASSUME NEW S, NEW ss, NEW N, NEW f, Flattening(S, ss, N, f)
    PROVE  FlattenSeq(ss) = f[N]
<1>. USE DEF Flattening
<1>1. CASE N = 0
  BY <1>1 DEF FlattenSeq
<1>2. CASE N # 0
  <2>. DEFINE IsFlat(g) == g = [i \in 1 .. N |-> IF i = 1 THEN ss[i] ELSE g[i - 1] \o ss[i]]
              g1 == [i \in 1 .. N |-> f[i]]
              flatten == CHOOSE g : IsFlat(g)
  <2>1. IsFlat(g1)
    <3>1. ASSUME NEW i \in 1 .. N
          PROVE  f[i] = IF i = 1 THEN ss[i] ELSE g1[i - 1] \o ss[i]
      <4>1. CASE i = 1
        <5>1. 1 \in 1 .. N /\ 1 - 1 = 0
          BY <1>2
        <5>2. f[1] = <<>> \o ss[1] /\ ss[1] \in Seq(S)
          BY <5>1
        <5>. QED
          BY <4>1, <5>2, ConcatEmptySeq
      <4>2. CASE i # 1
        <5>1. i - 1 \in 1 .. N
          BY <4>2
        <5>. QED
          BY <4>2, <5>1
      <4>. QED
        BY <4>1, <4>2
    <3>. QED
      BY <3>1
  <2>2. IsFlat(flatten)
    <3>. HIDE DEF IsFlat, g1
    <3>. QED
      BY <2>1
  <2>3. FlattenSeq(ss) = flatten[N]
    BY <1>2 DEF FlattenSeq
  <2>4. \A i \in 1 .. N : flatten[i] = IF i = 1 THEN ss[i] ELSE flatten[i - 1] \o ss[i]
    <3>. HIDE DEF flatten
    <3>. QED
      BY <2>2
  <2>. HIDE DEF flatten, IsFlat, g1
  <2>. DEFINE T == {n \in 0 .. N : n # 0 => flatten[n] = f[n]}
  <2>5. \A n \in 0 .. N : n \in T /\ n < N => n + 1 \in T
    <3>. SUFFICES ASSUME NEW n \in T, n < N PROVE n + 1 \in T
      OBVIOUS
    <3>0. n \in 0 .. N
      OBVIOUS
    <3>1. n \in 0 .. N /\ n + 1 \in 1 .. N /\ (n + 1) - 1 = n
      BY <3>0
    <3>2. f[n + 1] = f[n] \o ss[n + 1] /\ ss[n + 1] \in Seq(S)
      BY <3>1
    <3>3. CASE n = 0
      <4>1. <<>> \o ss[1] = ss[1]
        BY <3>2, <3>3, ConcatEmptySeq
      <4>2. flatten[1] = ss[1] /\ f[1] = ss[1]
        BY <2>4, <3>1, <3>2, <3>3, <4>1, 0 + 1 = 1
      <4>3. n + 1 = 1
        BY <3>3
      <4>. QED
        BY <3>1, <4>2, <4>3
    <3>4. CASE n # 0
      <4>1. flatten[n] = f[n] /\ n + 1 # 1
        BY <3>4
      <4>2. flatten[n + 1] = flatten[n] \o ss[n + 1]
        BY <2>4, <3>1, <4>1
      <4>3. flatten[n + 1] = f[n + 1]
        BY <3>2, <4>1, <4>2
      <4>. QED
        BY <3>1, <4>3
    <3>. QED
      BY <3>3, <3>4
  <2>6. 0 \in T
    OBVIOUS
  <2>7. N \in T
    <3>. HIDE DEF T
    <3>1. \A n \in 0 .. N : n \in T
      BY <2>5, <2>6, CountingUp
    <3>. QED
      BY <3>1
  <2>. QED
    BY <1>2, <2>3, <2>7
<1>. QED
  BY <1>1, <1>2

(* A sequence written element by element, from the front of what is left.  *)
LEMMA WriteOn ==
    ASSUME NEW S, NEW s \in Seq(S), NEW n \in 0 .. Len(s)
    PROVE  LET left == SubSeq(s, n + 1, Len(s))
           IN  /\ left = <<>> <=> n = Len(s)
               /\ n # Len(s) => /\ n + 1 \in 0 .. Len(s) /\ <<Head(left)>> \in Seq(S)
                                /\ Tail(left) = SubSeq(s, n + 2, Len(s))
                                /\ SubSeq(s, 1, n) \o <<Head(left)>> = SubSeq(s, 1, n + 1)
<1>. DEFINE N    == Len(s)
            left == SubSeq(s, n + 1, N)
<1>1. N \in Nat /\ n \in Nat /\ n <= N /\ \A i \in 1 .. N : s[i] \in S
  BY LenProperties, ElementOfSeq
<1>2. CASE n = N
  BY <1>1, <1>2, SubSeqEmpty
<1>3. CASE n # N
  <2>1. n + 1 \in 1 .. N /\ N \in n + 1 .. N /\ (n + 1) - 1 = n /\ (n + 1) + 1 = n + 2
    BY <1>1, <1>3
  <2>2. Head(left) = s[n + 1] /\ Tail(left) = SubSeq(s, n + 2, N) /\ s[n + 1] \in S
    BY <1>1, <2>1, HeadTailOfSubSeq
  <2>3. left # <<>>
    <3>1. Len(left) = N - (n + 1) + 1 /\ Len(left) # 0
      BY <1>1, <1>3, SubSeqProperties, n + 1 \in Int, n + 1 <= N
    <3>. HIDE DEF left
    <3>. QED
      BY <3>1, EmptySeq
  <2>4. Append(SubSeq(s, 1, n), s[n + 1]) = SubSeq(s, 1, n + 1)
    BY <2>1, PrefixGrows
  <2>5. SubSeq(s, 1, n) \in Seq(S)
    BY <1>1, SubSeqProperties
  <2>6. SubSeq(s, 1, n) \o <<s[n + 1]>> = SubSeq(s, 1, n + 1)
    BY <2>2, <2>4, <2>5, AppendIsConcat
  <2>. HIDE DEF left
  <2>. QED
    BY <1>3, <2>1, <2>2, <2>3, <2>6 DEF left
<1>. QED
  BY <1>2, <1>3

(* What follows a first element.                                           *)
LEMMA TailOfOne ==
    ASSUME NEW S, NEW s \in Seq(S), NEW x \in S
    PROVE  Tail(<<x>> \o s) = s
<1>1. <<x>> \in Seq(S) /\ Len(<<x>>) = 1
  OBVIOUS
<1>. DEFINE c == <<x>> \o s
<1>2. /\ c \in Seq(S) /\ Len(c) = 1 + Len(s)
      /\ \A i \in 1 .. 1 + Len(s) : c[i] = IF i <= 1 THEN <<x>>[i] ELSE s[i - 1]
  BY <1>1, ConcatProperties
<1>. HIDE DEF c
<1>3. Len(s) \in Nat /\ c # <<>>
  BY <1>2, LenProperties, EmptySeq
<1>4. /\ Tail(c) \in Seq(S) /\ Len(Tail(c)) = Len(c) - 1
      /\ \A i \in 1 .. Len(Tail(c)) : Tail(c)[i] = c[i + 1]
  BY <1>2, <1>3, HeadTailProperties
<1>5. Len(Tail(c)) = Len(s)
  BY <1>2, <1>3, <1>4
<1>6. ASSUME NEW i \in 1 .. Len(s) PROVE Tail(c)[i] = s[i]
  <2>1. i + 1 \in 1 .. 1 + Len(s) /\ ~ (i + 1 <= 1) /\ (i + 1) - 1 = i
    BY <1>3
  <2>. QED
    BY <1>2, <1>4, <1>5, <2>1
<1>7. Tail(c) = s
  BY <1>4, <1>5, <1>6, SeqEqual
<1>. QED
  BY <1>7 DEF c

(* The same for all numbers.                                               *)
RecursionForever(T, zero, step) ==
    \E f \in [Nat -> T] : /\ f[0] = zero
                          /\ \A n \in Nat \ {0} : f[n] = step[n][f[n - 1]]

LEMMA RecursionOnNat ==
    ASSUME NEW T, NEW zero \in T, NEW step \in [Nat -> [T -> T]]
    PROVE  RecursionForever(T, zero, step)
<1>. DEFINE Upto(m, f) == /\ f \in [0 .. m -> T] /\ f[0] = zero
                          /\ \A n \in 1 .. m : f[n] = step[n][f[n - 1]]
            F(m) == CHOOSE f : Upto(m, f)
            g == [m \in Nat |-> F(m)[m]]
<1>1. ASSUME NEW m \in Nat PROVE Upto(m, F(m))
  <2>. DEFINE some == [n \in 1 .. m |-> step[n]]
  <2>1. some \in [1 .. m -> [T -> T]]
    OBVIOUS
  <2>2. Recursion(m, T, zero, some)
    <3>. HIDE DEF some
    <3>. QED
      BY <2>1, RecursionOn
  <2>3. \E f : Upto(m, f)
    BY <2>2 DEF Recursion
  <2>. HIDE DEF Upto
  <2>. QED
    BY <2>3
<1>2. ASSUME NEW m \in Nat, NEW M \in Nat, m <= M
      PROVE  F(M)[m] = F(m)[m]
  <2>. DEFINE a == F(m)
              b == F(M)
              S == {n \in 0 .. m : a[n] = b[n]}
  <2>1. Upto(m, a) /\ Upto(M, b)
    BY <1>1
  <2>. HIDE DEF F, a, b
  <2>2. 0 \in S
    BY <2>1
  <2>3. \A n \in 0 .. m : n \in S /\ n < m => n + 1 \in S
    <3>. SUFFICES ASSUME NEW n \in 0 .. m, a[n] = b[n], n < m PROVE a[n + 1] = b[n + 1]
      OBVIOUS
    <3>1. n + 1 \in 1 .. m /\ n + 1 \in 1 .. M /\ (n + 1) - 1 = n
      BY <1>2
    <3>. QED
      BY <2>1, <3>1
  <2>4. m \in S
    <3>. HIDE DEF S
    <3>1. \A n \in 0 .. m : n \in S
      BY <2>2, <2>3, CountingUp
    <3>. QED
      BY <3>1
  <2>. QED
    BY <2>4 DEF a, b
<1>3. ASSUME NEW m \in Nat PROVE g[m] \in T
  <2>1. Upto(m, F(m))
    BY <1>1
  <2>. HIDE DEF F
  <2>2. m \in 0 .. m
    OBVIOUS
  <2>. QED
    BY <2>1, <2>2
<1>4. g[0] = zero
  <2>1. Upto(0, F(0))
    BY <1>1
  <2>. HIDE DEF F
  <2>. QED
    BY <2>1
<1>5. ASSUME NEW n \in Nat \ {0} PROVE g[n] = step[n][g[n - 1]]
  <2>1. n \in Nat /\ n - 1 \in Nat /\ n - 1 <= n /\ n \in 1 .. n
    OBVIOUS
  <2>2. Upto(n, F(n))
    BY <1>1
  <2>3. F(n)[n - 1] = F(n - 1)[n - 1]
    BY <1>2, <2>1
  <2>. HIDE DEF F
  <2>. QED
    BY <2>1, <2>2, <2>3
<1>. HIDE DEF g
<1>6. g \in [Nat -> T]
  BY <1>3 DEF g
<1>. QED
  BY <1>4, <1>5, <1>6 DEF RecursionForever
=============================================================================
