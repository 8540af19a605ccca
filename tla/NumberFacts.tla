----------------------------- MODULE NumberFacts ----------------------------
(***************************************************************************)
(* What the proofs need to know about numbers: the remainders of indices   *)
(* and sequence numbers that wrap, induction, and sums.  Induction is over *)
(* a set, so that no fact takes an operator as its parameter.              *)
(***************************************************************************)
EXTENDS Integers, Sequences, Sums, WellFoundedInduction, TLAPS

-----------------------------------------------------------------------------
(* Remainders *)

\* Division with remainder, in the form the backends can use.
LEMMA DivMod ==
  ASSUME NEW a \in Nat, NEW c \in Nat, c > 0
  PROVE  /\ a = c * (a \div c) + (a % c)
         /\ a \div c \in Nat
         /\ a % c \in 0 .. c - 1
OBVIOUS

\* A positive multiple of c is at least c.
LEMMA MultipleNotLess ==
  ASSUME NEW c \in Nat, NEW k \in Int, k >= 1
  PROVE  c * k >= c
OBVIOUS

\* Distinct multiples of c are at least c apart.
LEMMA MultiplesApart ==
  ASSUME NEW c \in Nat, NEW p \in Nat, NEW q \in Nat, p < q
  PROVE  c * q - c * p >= c
<1>1. c * (q - p) >= c
  BY MultipleNotLess
<1>2. c * (q - p) = c * q - c * p
  OBVIOUS
<1> QED BY <1>1, <1>2

\* Numbers less than c apart have different remainders: slots_[i & mask_] of
\* the ring names different slots for indices less than a capacity apart.
LEMMA RemaindersDiffer ==
  ASSUME NEW a \in Nat, NEW b \in Nat, NEW c \in Nat, c > 0, a < b, b < a + c
  PROVE  a % c # b % c
<1> SUFFICES ASSUME a % c = b % c PROVE FALSE
  OBVIOUS
<1> DEFINE p == a \div c
           q == b \div c
<1>1. a = c * p + (a % c) /\ b = c * q + (b % c) /\ p \in Nat /\ q \in Nat
  BY DivMod
<1> HIDE DEF p, q
<1>2. c * q - c * p = b - a
  BY <1>1
<1>3. CASE p < q  BY <1>1, <1>2, <1>3, MultiplesApart
<1>4. CASE q < p  BY <1>1, <1>2, <1>4, MultiplesApart
<1>5. CASE p = q  BY <1>1, <1>2, <1>5
<1> QED BY <1>1, <1>3, <1>4, <1>5

\* Quotient and remainder are unique.
LEMMA RemainderUnique ==
  ASSUME NEW a \in Nat, NEW c \in Nat, NEW q \in Nat, NEW r \in 0 .. c - 1,
         a = c * q + r
  PROVE  a % c = r
<1> DEFINE p == a \div c
<1>1. a = c * p + (a % c) /\ p \in Nat /\ a % c \in 0 .. c - 1
  BY DivMod
<1> HIDE DEF p
<1>2. c * q - c * p = (a % c) - r
  BY <1>1
<1>3. CASE p < q  BY <1>1, <1>2, <1>3, MultiplesApart
<1>4. CASE q < p  BY <1>1, <1>2, <1>4, MultiplesApart
<1>5. CASE p = q  BY <1>1, <1>2, <1>5
<1> QED BY <1>1, <1>3, <1>4, <1>5

\* Wrapping an index at a multiple of the capacity keeps its slot.
LEMMA WrapKeepsRemainder ==
  ASSUME NEW a \in Nat, NEW c \in Nat, NEW w \in Nat, c > 0, w % c = 0
  PROVE  (a + w) % c = a % c
<1> DEFINE p == a \div c
           k == w \div c
           r == a % c
<1>1. a = c * p + r /\ p \in Nat /\ r \in 0 .. c - 1
  BY DivMod
<1>2. w = c * k /\ k \in Nat
  BY DivMod
<1>3. r = a % c
  OBVIOUS
<1> HIDE DEF p, k, r
<1>4. PICK q \in Nat : q = p + k
  BY <1>1, <1>2
<1>5. PICK s \in Nat : s = a + w
  OBVIOUS
<1>6. s = c * q + r
  BY <1>1, <1>2, <1>4, <1>5
<1>7. s % c = r
  BY <1>1, <1>6, RemainderUnique
<1> QED BY <1>3, <1>5, <1>7

\* A counter kept modulo c counts on across the wrap.
LEMMA NextRemainder ==
  ASSUME NEW a \in Nat, NEW c \in Nat, c > 1
  PROVE  ((a % c) + 1) % c = (a + 1) % c
<1>1. PICK p \in Nat, r \in 0 .. c - 1 : a = c * p + r /\ r = a % c
  BY DivMod
<1>2. CASE r + 1 < c
  <2>1. (r + 1) % c = r + 1
    BY <1>2
  <2>2. a + 1 = c * p + (r + 1) /\ r + 1 \in 0 .. c - 1 /\ a + 1 \in Nat
    BY <1>1, <1>2
  <2>3. (a + 1) % c = r + 1
    BY <2>2, RemainderUnique, Zenon
  <2> QED BY <1>1, <2>1, <2>3
<1>3. CASE r + 1 = c
  <2>1. (r + 1) % c = 0
    BY <1>3
  <2>2. PICK q \in Nat : q = p + 1
    OBVIOUS
  <2>3. a + 1 = c * q + 0 /\ 0 \in 0 .. c - 1 /\ a + 1 \in Nat
    BY <1>1, <1>3, <2>2
  <2>4. (a + 1) % c = 0
    BY <2>3, RemainderUnique, Zenon
  <2> QED BY <1>1, <2>1, <2>4
<1> QED BY <1>1, <1>2, <1>3

\* Wrapping at an even number keeps parity.
LEMMA WrapKeepsParity ==
  ASSUME NEW a \in Nat, NEW c \in Nat, c > 0, c % 2 = 0
  PROVE  (a % c) % 2 = a % 2
<1>1. PICK p \in Nat, r \in 0 .. c - 1 : a = c * p + r /\ r = a % c
  BY DivMod
<1>2. PICK k \in Nat : c = 2 * k
  BY DivMod
<1>3. PICK w \in Nat : w = c * p
  OBVIOUS
<1>4. PICK j \in Nat : j = k * p
  OBVIOUS
<1>5. w = 2 * j + 0
  BY <1>2, <1>3, <1>4
<1>6. w % 2 = 0
  BY <1>5
<1>7. (r + w) % 2 = r % 2
  BY <1>6
<1>8. a = r + w
  BY <1>1, <1>3
<1> QED BY <1>1, <1>7, <1>8

-----------------------------------------------------------------------------
(* Induction and recursion *)

\* A nonempty set of numbers has a least element.
LEMMA LeastElement ==
  ASSUME NEW T \in SUBSET Nat, T # {}
  PROVE  \E m \in T : \A k \in T : m <= k
<1> DEFINE R == OpToRel(<, Nat)
<1>1. IsWellFoundedOn(R, Nat)
  BY NatLessThanWellFounded
<1>2. \A k, m \in Nat : k < m => <<k, m>> \in R
  BY DEF OpToRel
<1> HIDE DEF R
<1>3. PICK m \in T : \A k \in T : ~ (<<k, m>> \in R)
  BY <1>1, WFMin, Zenon
<1>4. ASSUME NEW k \in T PROVE m <= k
  <2>1. k \in Nat /\ m \in Nat /\ ~ (k < m)
    BY <1>2, <1>3, Zenon
  <2> QED BY <2>1
<1> QED BY <1>4

\* A set that holds 0 and the successor of each of its numbers holds them all.
LEMMA InductiveSet ==
  ASSUME NEW T, 0 \in T, \A n \in Nat : n \in T => n + 1 \in T
  PROVE  \A n \in Nat : n \in T
<1> SUFFICES ASSUME NEW n \in Nat, n \notin T PROVE FALSE
  OBVIOUS
<1>1. PICK m \in Nat \ T : \A k \in Nat \ T : m <= k
  BY LeastElement, Zenon
<1>2. m - 1 \in Nat /\ m - 1 \in T
  BY <1>1
<1>3. (m - 1) + 1 \in T
  BY <1>2
<1> QED
  BY <1>1, <1>3

\* A sequence starts at a and its n-th step is given by g[n].
HasSequence(S, a, g) ==
  \E f \in [Nat -> S] : f[0] = a /\ \A n \in Nat : f[n + 1] = g[n][f[n]]

\* Definition by recursion: the sequence exists.
LEMMA RecursionExists ==
  ASSUME NEW S, NEW a \in S, NEW g \in [Nat -> [S -> S]]
  PROVE  HasSequence(S, a, g)
<1> DEFINE Good(n, h) == h \in [0 .. n -> S] /\ h[0] = a /\ \A i \in 0 .. n - 1 : h[i + 1] = g[i][h[i]]
           T == {n \in Nat : \E h : Good(n, h)}
<1>1. 0 \in T
  <2>1. Good(0, [i \in 0 .. 0 |-> a])
    OBVIOUS
  <2> QED
    BY <2>1, Zenon
<1>2. ASSUME NEW n \in Nat, n \in T PROVE n + 1 \in T
  <2>1. PICK h : Good(n, h)
    BY <1>2
  <2> DEFINE k == [i \in 0 .. n + 1 |-> IF i = n + 1 THEN g[n][h[n]] ELSE h[i]]
  <2>0. h[n] \in S /\ g[n][h[n]] \in S
     BY <2>1
  <2>2. k \in [0 .. n + 1 -> S]
    BY <2>1, <2>0
  <2>3. k[0] = a
    BY <2>1
  <2>4. ASSUME NEW i \in 0 .. n PROVE k[i + 1] = g[i][k[i]]
    <3>1. k[i] = h[i]
      OBVIOUS
    <3>2. CASE i = n
      <4>1. n + 1 \in 0 .. n + 1
        OBVIOUS
      <4>2. k[n + 1] = g[n][h[n]]
        BY <4>1
      <4> QED
        BY <3>1, <3>2, <4>2, Zenon
    <3>3. CASE i \in 0 .. n - 1
      <4>1. k[i + 1] = h[i + 1]
        BY <3>3
      <4> QED BY <2>1, <3>1, <3>3, <4>1
    <3> QED BY <3>2, <3>3
  <2> HIDE DEF k
  <2>5. Good(n + 1, k)
    <3>1. (n + 1) - 1 = n
      OBVIOUS
    <3> QED
      BY <2>2, <2>3, <2>4, <3>1, Zenon
  <2> HIDE DEF Good
  <2> QED
    BY <2>5
<1>3. \A n \in Nat : n \in T
  <2> HIDE DEF T
  <2> QED BY <1>1, <1>2, InductiveSet
<1>4. ASSUME NEW n \in Nat, NEW m \in Nat, NEW h, NEW k, n <= m, Good(n, h), Good(m, k)
      PROVE  \A i \in 0 .. n : h[i] = k[i]
  <2> DEFINE E == {i \in Nat : i <= n => h[i] = k[i]}
  <2>1. 0 \in E
    BY <1>4
  <2>2. ASSUME NEW i \in Nat, i \in E PROVE i + 1 \in E
    <3>1. CASE i + 1 <= n
      <4>1. h[i] = k[i] /\ i \in 0 .. n - 1 /\ i \in 0 .. m - 1
        BY <2>2, <3>1, <1>4
      <4>2. h[i + 1] = k[i + 1]
        BY <4>1, <1>4
      <4> QED BY <4>2
    <3>2. CASE ~(i + 1 <= n)
      BY <3>2
    <3> QED BY <3>1, <3>2
  <2>3. \A i \in Nat : i \in E
    <3> HIDE DEF E
    <3> QED BY <2>1, <2>2, InductiveSet
  <2> QED
    BY <2>3
<1> DEFINE H(n) == CHOOSE h : Good(n, h)
           f == [n \in Nat |-> H(n)[n]]
<1>5. ASSUME NEW n \in Nat PROVE Good(n, H(n))
  <2>1. \E h : Good(n, h)
     BY <1>3
  <2> HIDE DEF Good
  <2> QED BY <2>1
<1> HIDE DEF H
<1>6. f \in [Nat -> S] /\ f[0] = a
  BY <1>5
<1>7. ASSUME NEW n \in Nat PROVE f[n + 1] = g[n][f[n]]
  <2>1. Good(n + 1, H(n + 1)) /\ Good(n, H(n))
    BY <1>5
  <2>2. H(n)[n] = H(n + 1)[n]
    <3> HIDE DEF Good
    <3>1. \A i \in 0 .. n : H(n)[i] = H(n + 1)[i]
      BY <2>1, <1>4
    <3> QED BY <3>1
  <2>3. H(n + 1)[n + 1] = g[n][H(n + 1)[n]]
    BY <2>1
  <2> QED
    BY <2>2, <2>3
<1> QED
  BY <1>6, <1>7, Zenon DEF HasSequence

\* The same for sequences of numbers.
LEMMA NatRecursion ==
  ASSUME NEW a \in Nat, NEW g \in [Nat -> [Nat -> Nat]]
  PROVE  \E f \in [Nat -> Nat] : f[0] = a /\ \A n \in Nat : f[n + 1] = g[n][f[n]]
<1>1. HasSequence(Nat, a, g)
  BY RecursionExists, Zenon
<1> QED
  BY <1>1, Zenon DEF HasSequence

-----------------------------------------------------------------------------
(* Sums *)

\* What the recursive definition of the partial sums defines.
LEMMA PartialSumsDef ==
  ASSUME NEW n \in Nat, NEW f, \A i \in 1 .. n : f[i] \in Nat
  PROVE  /\ PartialSums(f, n) \in [0 .. n -> Nat]
         /\ PartialSums(f, n)[0] = 0
         /\ \A i \in 1 .. n : PartialSums(f, n)[i] = PartialSums(f, n)[i - 1] + f[i]
<1> DEFINE Body(p) == [i \in 0 .. n |-> IF i = 0 THEN 0 ELSE p[i - 1] + f[i]]
           g == [i \in Nat |-> [x \in Nat |-> IF i + 1 \in 1 .. n THEN x + f[i + 1] ELSE 0]]
<1>1. g \in [Nat -> [Nat -> Nat]]
  OBVIOUS
<1>2. PICK h \in [Nat -> Nat] : h[0] = 0 /\ \A i \in Nat : h[i + 1] = g[i][h[i]]
  <2> HIDE DEF g
  <2>1. 0 \in Nat
    OBVIOUS
  <2> QED
    BY <1>1, <2>1, NatRecursion, Zenon
<1>3. \A i \in 1 .. n : h[i] = h[i - 1] + f[i]
  <2> SUFFICES ASSUME NEW i \in 1 .. n PROVE h[i] = h[i - 1] + f[i]
    OBVIOUS
  <2>1. i - 1 \in Nat /\ (i - 1) + 1 = i /\ h[i - 1] \in Nat
    OBVIOUS
  <2>2. h[i] = g[i - 1][h[i - 1]]
    BY <1>2, <2>1, Zenon
  <2>3. g[i - 1][h[i - 1]] = h[i - 1] + f[i]
    BY <2>1
  <2> QED
    BY <2>2, <2>3, Zenon
<1> DEFINE w == [i \in 0 .. n |-> h[i]]
<1>4. w = Body(w)
  <2>1. \A i \in 1 .. n : w[i - 1] = h[i - 1]
    OBVIOUS
  <2>2. \A i \in 0 .. n : w[i] = Body(w)[i]
    BY <1>2, <1>3, <2>1
  <2> QED
    BY <2>2
<1>5. PartialSums(f, n) = Body(PartialSums(f, n))
  <2>1. PartialSums(f, n) = CHOOSE p : p = Body(p)
    BY DEF PartialSums
  <2>2. \E p : p = Body(p)
    BY <1>4, Zenon
  <2> HIDE DEF Body
  <2> QED
    BY <2>1, <2>2
<1> DEFINE P == PartialSums(f, n)
<1>6. \A i \in 0 .. n : P[i] = IF i = 0 THEN 0 ELSE P[i - 1] + f[i]
  BY <1>5, Zenon
<1> HIDE DEF P
<1>7. P[0] = 0 /\ \A i \in 1 .. n : P[i] = P[i - 1] + f[i]
  BY <1>6
<1>8. \A i \in Nat : i \in {k \in Nat : k <= n => P[k] \in Nat}
  <2> DEFINE T == {k \in Nat : k <= n => P[k] \in Nat}
  <2>1. 0 \in T
    BY <1>7
  <2>2. ASSUME NEW k \in Nat, k \in T PROVE k + 1 \in T
    BY <1>7, <2>2
  <2> HIDE DEF T
  <2>3. \A k \in Nat : k \in T
    BY <2>1, <2>2, InductiveSet
  <2> QED
    BY <2>3 DEF T
<1>9. P \in [0 .. n -> Nat]
  <2>1. P = [i \in 0 .. n |-> IF i = 0 THEN 0 ELSE P[i - 1] + f[i]]
    BY <1>5, Zenon DEF P
  <2>2. P = [i \in 0 .. n |-> P[i]]
    BY <2>1
  <2>3. \A i \in 0 .. n : P[i] \in Nat
    BY <1>8
  <2> QED
    BY <2>2, <2>3
<1> QED
  BY <1>7, <1>9 DEF P

\* The sum of the first m numbers is the m-th partial sum.
LEMMA SumToPartial ==
  ASSUME NEW n \in Nat, NEW m \in 0 .. n, NEW f, \A i \in 1 .. n : f[i] \in Nat
  PROVE  SumTo(f, m) = PartialSums(f, n)[m]
<1> DEFINE P == PartialSums(f, n)
           Q == PartialSums(f, m)
<1>1. /\ P \in [0 .. n -> Nat] /\ P[0] = 0
      /\ \A i \in 1 .. n : P[i] = P[i - 1] + f[i]
  BY PartialSumsDef
<1>2. \A i \in 1 .. m : f[i] \in Nat
  OBVIOUS
<1>3. /\ Q \in [0 .. m -> Nat] /\ Q[0] = 0
      /\ \A i \in 1 .. m : Q[i] = Q[i - 1] + f[i]
  BY <1>2, PartialSumsDef
<1> HIDE DEF P, Q
<1> DEFINE T == {k \in Nat : k <= m => Q[k] = P[k]}
<1>4. 0 \in T
  BY <1>1, <1>3
<1>5. ASSUME NEW k \in Nat, k \in T PROVE k + 1 \in T
  <2>1. CASE k + 1 <= m
    <3>1. k + 1 \in 1 .. m /\ k + 1 \in 1 .. n /\ (k + 1) - 1 = k
      BY <2>1
    <3>2. Q[k + 1] = Q[k] + f[k + 1] /\ P[k + 1] = P[k] + f[k + 1] /\ Q[k] = P[k]
      BY <1>1, <1>3, <1>5, <3>1
    <3> QED
      BY <3>2
  <2>2. CASE ~(k + 1 <= m)
    BY <2>2
  <2> QED
    BY <2>1, <2>2
<1>6. \A k \in Nat : k \in T
  <2> HIDE DEF T
  <2> QED
    BY <1>4, <1>5, InductiveSet
<1> QED
  BY <1>6 DEF P, Q, SumTo

\* A sum of no numbers.
LEMMA SumToZero ==
  ASSUME NEW f
  PROVE  SumTo(f, 0) = 0
  BY PartialSumsDef DEF SumTo

\* A sum of one number more.
LEMMA SumToStep ==
  ASSUME NEW n \in Nat, NEW f, \A i \in 1 .. n + 1 : f[i] \in Nat
  PROVE  SumTo(f, n + 1) = SumTo(f, n) + f[n + 1]
<1> DEFINE P == PartialSums(f, n + 1)
<1>1. n + 1 \in Nat /\ n \in 0 .. n + 1 /\ n + 1 \in 0 .. n + 1 /\ n + 1 \in 1 .. n + 1 /\ (n + 1) - 1 = n
  OBVIOUS
<1>2. \A i \in 1 .. n + 1 : P[i] = P[i - 1] + f[i]
  BY <1>1, PartialSumsDef
<1>3. SumTo(f, n) = P[n] /\ SumTo(f, n + 1) = P[n + 1]
  BY <1>1, SumToPartial
<1> HIDE DEF P
<1> QED
  BY <1>1, <1>2, <1>3

\* A sum of numbers is a number.
LEMMA SumToNat ==
  ASSUME NEW n \in Nat, NEW f, \A i \in 1 .. n : f[i] \in Nat
  PROVE  SumTo(f, n) \in Nat
  BY PartialSumsDef DEF SumTo

\* Zeros add up to nothing.
LEMMA SumToNothing ==
  ASSUME NEW n \in Nat, NEW f, \A i \in 1 .. n : f[i] = 0
  PROVE  SumTo(f, n) = 0
<1> DEFINE T == {k \in Nat : k <= n => SumTo(f, k) = 0}
<1>1. 0 \in T
  BY SumToZero
<1>2. ASSUME NEW k \in Nat, k \in T PROVE k + 1 \in T
  <2>1. CASE k + 1 <= n
    <3>1. \A i \in 1 .. k + 1 : f[i] \in Nat
      BY <2>1
    <3>2. SumTo(f, k + 1) = SumTo(f, k) + f[k + 1] /\ f[k + 1] = 0
      BY <2>1, <3>1, SumToStep
    <3> QED
      BY <1>2, <2>1, <3>2
  <2>2. CASE ~(k + 1 <= n)
    BY <2>2
  <2> QED
    BY <2>1, <2>2
<1>3. \A k \in Nat : k \in T
  <2> HIDE DEF T
  <2> QED
    BY <1>1, <1>2, InductiveSet
<1> QED
  BY <1>3

\* Equal numbers have equal sums.
LEMMA SumToSame ==
  ASSUME NEW n \in Nat, NEW f, NEW g, \A i \in 1 .. n : f[i] \in Nat /\ g[i] = f[i]
  PROVE  SumTo(g, n) = SumTo(f, n)
<1> DEFINE T == {k \in Nat : k <= n => SumTo(g, k) = SumTo(f, k)}
<1>1. 0 \in T
  BY SumToZero
<1>2. ASSUME NEW k \in Nat, k \in T PROVE k + 1 \in T
  <2>1. CASE k + 1 <= n
    <3>1. \A i \in 1 .. k + 1 : f[i] \in Nat /\ g[i] \in Nat /\ g[i] = f[i]
      BY <2>1
    <3>2. SumTo(f, k + 1) = SumTo(f, k) + f[k + 1] /\ SumTo(g, k + 1) = SumTo(g, k) + g[k + 1]
      BY <3>1, SumToStep
    <3>3. SumTo(g, k) = SumTo(f, k) /\ g[k + 1] = f[k + 1]
      BY <1>2, <2>1, <3>1
    <3> QED
      BY <3>2, <3>3
  <2>2. CASE ~(k + 1 <= n)
    BY <2>2
  <2> QED
    BY <2>1, <2>2
<1>3. \A k \in Nat : k \in T
  <2> HIDE DEF T
  <2> QED
    BY <1>1, <1>2, InductiveSet
<1> QED
  BY <1>3

\* Two sequences of n numbers that agree everywhere but at j.
AgreeBut(f, g, n, j) ==
  /\ \A i \in 1 .. n : f[i] \in Nat /\ g[i] \in Nat
  /\ \A i \in 1 .. n : i # j => g[i] = f[i]

\* When one of the numbers changes, the sum changes by as much.
LEMMA SumToOne ==
  ASSUME NEW f, NEW g, NEW n, NEW j, AgreeBut(f, g, n, j), n \in Nat, j \in 1 .. n
  PROVE  SumTo(g, n) + f[j] = SumTo(f, n) + g[j]
<1> USE DEF AgreeBut
<1> DEFINE T == {k \in Nat : j <= k /\ k <= n => SumTo(g, k) + f[j] = SumTo(f, k) + g[j]}
<1>1. 0 \in T
  OBVIOUS
<1>2. ASSUME NEW k \in Nat, k \in T PROVE k + 1 \in T
  <2>1. CASE j <= k + 1 /\ k + 1 <= n
    <3>1. \A i \in 1 .. k + 1 : f[i] \in Nat /\ g[i] \in Nat
      BY <2>1
    <3>2. SumTo(f, k + 1) = SumTo(f, k) + f[k + 1] /\ SumTo(g, k + 1) = SumTo(g, k) + g[k + 1]
      BY <3>1, SumToStep
    <3>3. f[k + 1] \in Nat /\ g[k + 1] \in Nat /\ f[j] \in Nat /\ g[j] \in Nat
      BY <3>1, <2>1
    <3>4. SumTo(f, k) \in Nat /\ SumTo(g, k) \in Nat
      BY <3>1, SumToNat
    <3>5. CASE j = k + 1
      <4>1. \A i \in 1 .. k : f[i] \in Nat /\ g[i] = f[i]
        BY <2>1, <3>1, <3>5
      <4>2. SumTo(g, k) = SumTo(f, k)
        BY <4>1, SumToSame
      <4> QED
        BY <3>2, <3>3, <3>4, <3>5, <4>2
    <3>6. CASE j # k + 1
      <4>1. j <= k /\ k <= n /\ g[k + 1] = f[k + 1]
        BY <2>1, <3>6
      <4>2. SumTo(g, k) + f[j] = SumTo(f, k) + g[j]
        BY <1>2, <4>1
      <4> QED
        BY <3>2, <3>3, <3>4, <4>1, <4>2
    <3> QED
      BY <3>5, <3>6
  <2>2. CASE ~(j <= k + 1 /\ k + 1 <= n)
    BY <2>2
  <2> QED
    BY <2>1, <2>2
<1>3. \A k \in Nat : k \in T
  <2> HIDE DEF T
  <2> QED
    BY <1>1, <1>2, InductiveSet
<1> QED
  BY <1>3

\* A sum without its first number.
LEMMA SumToShift ==
  ASSUME NEW n \in Nat, NEW f, NEW g,
         \A i \in 1 .. n + 1 : f[i] \in Nat, \A i \in 1 .. n : g[i] = f[i + 1]
  PROVE  SumTo(f, n + 1) = f[1] + SumTo(g, n)
<1> DEFINE T == {k \in Nat : k <= n => SumTo(f, k + 1) = f[1] + SumTo(g, k)}
<1>1. 0 \in T
  <2>1. \A i \in 1 .. 0 + 1 : f[i] \in Nat
    OBVIOUS
  <2>2. SumTo(f, 0 + 1) = SumTo(f, 0) + f[0 + 1]
    BY <2>1, SumToStep
  <2>3. f[1] \in Nat
    OBVIOUS
  <2> QED
    BY <2>2, <2>3, SumToZero
<1>2. ASSUME NEW k \in Nat, k \in T PROVE k + 1 \in T
  <2>1. CASE k + 1 <= n
    <3>1. /\ \A i \in 1 .. (k + 1) + 1 : f[i] \in Nat
          /\ \A i \in 1 .. k + 1 : g[i] \in Nat
      BY <2>1
    <3>2. SumTo(f, (k + 1) + 1) = SumTo(f, k + 1) + f[(k + 1) + 1]
      BY <3>1, SumToStep
    <3>3. SumTo(g, k + 1) = SumTo(g, k) + g[k + 1]
      BY <3>1, SumToStep
    <3>4. SumTo(g, k) \in Nat
      BY <3>1, SumToNat
    <3>5. SumTo(f, k + 1) = f[1] + SumTo(g, k) /\ g[k + 1] = f[(k + 1) + 1]
      BY <1>2, <2>1
    <3>6. f[1] \in Nat /\ g[k + 1] \in Nat
      BY <3>1
    <3> QED
      BY <3>2, <3>3, <3>4, <3>5, <3>6
  <2>2. CASE ~(k + 1 <= n)
    BY <2>2
  <2> QED
    BY <2>1, <2>2
<1>3. \A k \in Nat : k \in T
  <2> HIDE DEF T
  <2> QED
    BY <1>1, <1>2, InductiveSet
<1> QED
  BY <1>3

\* The empty ring carries nothing.
LEMMA TotalEmpty == Total(<< >>) = 0
  BY SumToZero DEF Total

\* A ring of numbers carries a number.
LEMMA TotalNat ==
  ASSUME NEW s \in Seq(Nat)
  PROVE  Total(s) \in Nat
<1>1. Len(s) \in Nat /\ \A i \in 1 .. Len(s) : s[i] \in Nat
  OBVIOUS
<1> QED
  BY <1>1, SumToNat DEF Total

\* A push adds what the pushed element carries.
LEMMA TotalAppend ==
  ASSUME NEW s \in Seq(Nat), NEW x \in Nat
  PROVE  Total(Append(s, x)) = Total(s) + x
<1> DEFINE t == Append(s, x)
           n == Len(s)
<1>1. /\ n \in Nat /\ Len(t) = n + 1 /\ t[n + 1] = x
      /\ \A i \in 1 .. n : s[i] \in Nat /\ t[i] = s[i]
      /\ \A i \in 1 .. n + 1 : t[i] \in Nat
  OBVIOUS
<1> HIDE DEF t, n
<1>2. SumTo(t, n + 1) = SumTo(t, n) + t[n + 1]
  BY <1>1, SumToStep, Zenon
<1>3. SumTo(t, n) = SumTo(s, n)
  BY <1>1, SumToSame
<1> QED
  BY <1>1, <1>2, <1>3 DEF Total, t, n

\* A pop takes away what the popped element carries.
LEMMA TotalTail ==
  ASSUME NEW s \in Seq(Nat), s # << >>
  PROVE  Total(s) = Head(s) + Total(Tail(s))
<1> DEFINE t == Tail(s)
<1>1. PICK n \in Nat : Len(s) = n + 1
  <2>1. Len(s) \in Nat /\ Len(s) # 0
    OBVIOUS
  <2> QED
    BY <2>1
<1>2. /\ Len(t) = n /\ Head(s) = s[1]
      /\ \A i \in 1 .. n + 1 : s[i] \in Nat
      /\ \A i \in 1 .. n : t[i] = s[i + 1]
  BY <1>1
<1> HIDE DEF t
<1>3. SumTo(s, n + 1) = s[1] + SumTo(t, n)
  BY <1>2, SumToShift, Zenon
<1> QED
  BY <1>1, <1>2, <1>3 DEF Total, t
=============================================================================
